---- MODULE Spec2Model ----
(***************************************************************************)
(* CampusTalentInsight: the data enrichment and aggregation pipeline of    *)
(* src/src/core/data_processor.py (class DataProcessor).                   *)
(*                                                                         *)
(* Text.  A Python str is a sequence of one-character strings.  An ASCII   *)
(* character is itself ("Q", "-", "9"); any other character is written as  *)
(* its Unicode code point ("U6E56" is the character 湖), so that substring  *)
(* search, split and slicing work on characters as they do in the source.  *)
(* A missing cell (pandas NaN) and Python's None are one-element sequences *)
(* whose element is not a character.                                       *)
(***************************************************************************)
EXTENDS Integers, Sequences, FiniteSets, TLC

VARIABLES
    fn,             \* classifier run: the function applied to arg, or "none"
    arg,            \* classifier run: the raw cell value handed to the function
    ret,            \* classifier run: the value returned
    df,             \* pipeline run: the validated dataset (pandas DataFrame)
    df_enhanced,    \* pipeline run: outcome of enhance_data(df), or NotRun
    df_again,       \* pipeline run: outcome of enhance_data on its own output
    stats,          \* pipeline run: outcome of generate_statistics, or NotRun
    report,         \* pipeline run: outcome of generate_markdown_report, or NotRun
    uploads_dir,    \* server: the files of the uploads directory, by name
    history_file,   \* server: uploads/upload_history.json
    current_data,          \* server: DataManager.current_data
    current_description,   \* server: DataManager.current_description
    current_upload_time,   \* server: DataManager.current_upload_time
    reports_dir,    \* server: the names of the files of the reports directory
    now,            \* server: the wall clock, in seconds
    awaiting,       \* server: the report request suspended at its await
    request,        \* server: the request a handler was last called with
    response        \* server: the response to it

classifier_vars == <<fn, arg, ret>>
pipeline_vars == <<df, df_enhanced, df_again, stats, report>>
server_vars ==
    <<uploads_dir, history_file, current_data, current_description,
      current_upload_time, reports_dir, now, awaiting, request, response>>

vars == <<classifier_vars, pipeline_vars, server_vars>>

-----------------------------------------------------------------------------
(* Values that are not text *)

\* float("nan"): an empty spreadsheet cell as pandas reads it
NaN == <<"float:nan">>
\* Python None
None == <<"NoneType:None">>
\* a result that has not been computed yet
NotRun == [computed |-> FALSE]

\* the outcome of a call: the exception that left it ("none": it returned)
\* and the value returned
Returned(v) == [exc |-> "none", value |-> v]
Raised(e) == [exc |-> e, value |-> None]

\* pd.isna(x) on a scalar
isna(x) == x = NaN \/ x = None

\* str(x)
str(x) == IF x = NaN THEN <<"n", "a", "n">> ELSE IF x = None THEN <<"N", "o", "n", "e">> ELSE x

-----------------------------------------------------------------------------
(* Python str operations *)

\* sub in s
Contains(sub, s) ==
    \E i \in 0..(Len(s) - Len(sub)) : SubSeq(s, i + 1, i + Len(sub)) = sub

\* s.split(sep)[0], sep a single character: the text before the first sep
RECURSIVE SplitFirst(_, _)
SplitFirst(s, sep) ==
    IF s = <<>> \/ Head(s) = sep THEN <<>>
    ELSE <<Head(s)>> \o SplitFirst(Tail(s), sep)

\* s[:n]
Take(s, n) == SubSeq(s, 1, IF Len(s) < n THEN Len(s) ELSE n)

\* s.strip() for the blank character
RECURSIVE Strip(_)
Strip(s) ==
    IF s = <<>> THEN s
    ELSE IF Head(s) = " " THEN Strip(Tail(s))
    ELSE IF s[Len(s)] = " " THEN Strip(SubSeq(s, 1, Len(s) - 1))
    ELSE s

Digits == <<"0", "1", "2", "3", "4", "5", "6", "7", "8", "9">>
IsDigit(c) == \E i \in 1..10 : Digits[i] = c
DigitVal(c) == (CHOOSE i \in 1..10 : Digits[i] = c) - 1

\* Python integers are unbounded.  The value of a literal is only compared
\* with the band limits, so a value above IntCap is kept as IntCap.
IntCap == 1000000

RECURSIVE DigitsVal(_)
DigitsVal(ds) ==
    IF ds = <<>> THEN 0
    ELSE IF ds[Len(ds)] = "_" THEN DigitsVal(SubSeq(ds, 1, Len(ds) - 1))
    ELSE LET v == DigitsVal(SubSeq(ds, 1, Len(ds) - 1)) * 10 + DigitVal(ds[Len(ds)])
         IN  IF v > IntCap THEN IntCap ELSE v

\* int(s) for a str: blanks stripped, an optional sign, decimal digits that
\* single underscores may separate; anything else raises ValueError
int(s) ==
    LET t == Strip(s)
        signed == t # <<>> /\ Head(t) \in {"+", "-"}
        body == IF signed THEN Tail(t) ELSE t
        wellformed ==
            /\ body # <<>>
            /\ IsDigit(body[1])
            /\ IsDigit(body[Len(body)])
            /\ \A i \in 1..Len(body) : IsDigit(body[i]) \/ body[i] = "_"
            /\ \A i \in 1..(Len(body) - 1) : ~(body[i] = "_" /\ body[i + 1] = "_")
    IN  IF ~wellformed THEN [exc |-> "ValueError", value |-> 0]
        ELSE [exc |-> "none",
              value |-> IF signed /\ Head(t) = "-" THEN 0 - DigitsVal(body)
                        ELSE DigitsVal(body)]

\* the smallest member of a non-empty set of integers
Min(S) == CHOOSE m \in S : \A n \in S : m <= n

-----------------------------------------------------------------------------
(* Column names.  A column name is only ever compared as a whole, so it is *)
(* an atomic string: the pinyin of the header.                             *)

\* "最高学历毕业院校类别": the raw category tag of the graduating institution
COL_CATEGORY == "ZuiGaoXueLiBiYeYuanXiaoLeiBie"

\* row.get(key, default) on a pandas Series
RowGet(row, key, default) == IF key \in DOMAIN row THEN row[key] ELSE default

-----------------------------------------------------------------------------
(* DataProcessor.classify_institution *)

\* "海外院校"
OVERSEAS == <<"U6D77", "U5916", "U9662", "U6821">>  \* "海外院校"
QS1_50 == <<"Q", "S", "1", "-", "5", "0">>
QS100 == <<"Q", "S", "1", "0", "0">>
\* "其他海外院校"
OTHER_OVERSEAS == <<"U5176", "U4ED6", "U6D77", "U5916", "U9662", "U6821">>  \* "其他海外院校"
\* "其他"
TIER_OTHER == <<"U5176", "U4ED6">>  \* "其他"
\* "C9联盟"
C9 == <<"C", "9", "U8054", "U76DF">>  \* "C9联盟"

\* the domestic priority list
categories ==
    << <<"C", "9", "U8054", "U76DF">>,  \* "C9联盟"
       <<"9", "8", "5">>,
       <<"2", "1", "1">>,
       <<"U8F68", "U9053", "U4EA4", "U901A", "U5408", "U4F5C", "U9662", "U6821">>,  \* "轨道交通合作院校"
       <<"U4F18", "U52BF", "U5B66", "U79D1", "U9662", "U6821">>,  \* "优势学科院校"
       <<"U6E56", "U5357", "U7701", "U77E5", "U540D", "U9AD8", "U6821">>,  \* "湖南省知名高校"
       <<"U521B", "U65B0", "U578B", "U5927", "U5B66">>,  \* "创新型大学"
       <<"U5176", "U4ED6", "U7B7E", "U5B57", "U589E", "U8865", "U9662", "U6821">> >>  \* "其他签字增补院校"

\* the largest member of a non-empty set of integers
Max(S) == CHOOSE m \in S : \A n \in S : m >= n

\* a scan that keeps the last match instead of returning at the first
FirstCategory_last_hit(cats, tag) ==
    LET hits == {i \in 1..Len(cats) : Contains(cats[i], tag)}
    IN  IF hits = {} THEN TIER_OTHER ELSE cats[Max(hits)]

\* for category in categories: if category in tag: return category
FirstCategory(cats, tag) ==
    LET hits == {i \in 1..Len(cats) : Contains(cats[i], tag)}
    IN  IF hits = {} THEN TIER_OTHER ELSE cats[Min(hits)]

OverseasTier(tag) ==
    IF Contains(QS1_50, tag) THEN QS1_50
    ELSE IF Contains(QS100, tag) THEN QS100
    ELSE OTHER_OVERSEAS

\* the domestic list consulted before the overseas marker
classify_institution_domestic_first(row) ==
    LET institution_category == str(RowGet(row, COL_CATEGORY, <<>>))
        domestic == FirstCategory(categories, institution_category)
    IN  IF domestic # TIER_OTHER THEN domestic
        ELSE IF Contains(OVERSEAS, institution_category)
        THEN OverseasTier(institution_category)
        ELSE TIER_OTHER

classify_institution(row) ==
    LET institution_category == str(RowGet(row, COL_CATEGORY, <<>>))
    IN  IF Contains(OVERSEAS, institution_category)
        THEN OverseasTier(institution_category)
        ELSE FirstCategory(categories, institution_category)

-----------------------------------------------------------------------------
(* DataProcessor.calculate_generation *)

GEN_05 == <<"0", "5", "U540E">>  \* "05后"
GEN_00 == <<"0", "0", "U540E">>  \* "00后"
GEN_95 == <<"9", "5", "U540E">>  \* "95后"
GEN_90 == <<"9", "0", "U540E">>  \* "90后"

\* the text the year is read from
YearSegment(birth_str) ==
    IF Contains(<<"-">>, birth_str) THEN SplitFirst(birth_str, "-")
    ELSE IF Contains(<<"/">>, birth_str) THEN SplitFirst(birth_str, "/")
    ELSE Take(birth_str, 4)

\* the band limits compared with > instead of >=
GenerationOfYear_exclusive(year) ==
    IF year > 2005 THEN GEN_05
    ELSE IF year > 2000 THEN GEN_00
    ELSE IF year > 1995 THEN GEN_95
    ELSE IF year > 1990 THEN GEN_90
    ELSE None

GenerationOfYear(year) ==
    IF year >= 2005 THEN GEN_05
    ELSE IF year >= 2000 THEN GEN_00
    ELSE IF year >= 1995 THEN GEN_95
    ELSE IF year >= 1990 THEN GEN_90
    ELSE None

\* except (ValueError, IndexError)
CAUGHT == {"ValueError", "IndexError"}

\* the body of the try statement
calculate_generation_try(birth_date) ==
    IF isna(birth_date) \/ birth_date = <<>> THEN Returned(None)
    ELSE LET year == int(YearSegment(str(birth_date)))
         IN  IF year.exc # "none" THEN year
             ELSE Returned(GenerationOfYear(year.value))

\* the try statement without its except clause
calculate_generation_run_uncaught(birth_date) ==
    calculate_generation_try(birth_date)

calculate_generation_run(birth_date) ==
    LET body == calculate_generation_try(birth_date)
    IN  IF body.exc \in CAUGHT THEN Returned(None) ELSE body

calculate_generation(birth_date) == calculate_generation_run(birth_date).value

-----------------------------------------------------------------------------
(* DataProcessor.extract_province *)

\* "未知"
UNKNOWN == <<"U672A", "U77E5">>  \* "未知"

\* the alias table, in insertion order: <<key, province>>
province_map ==
    << << <<"U6E56", "U5357", "U957F", "U6C99">>, <<"U6E56", "U5357">> >>,  \* "湖南长沙", "湖南"
       << <<"U6E56", "U5357">>, <<"U6E56", "U5357">> >>,  \* "湖南", "湖南"
       << <<"U5317", "U4EAC">>, <<"U5317", "U4EAC">> >>,  \* "北京", "北京"
       << <<"U4E0A", "U6D77">>, <<"U4E0A", "U6D77">> >>,  \* "上海", "上海"
       << <<"U5E7F", "U4E1C">>, <<"U5E7F", "U4E1C">> >>,  \* "广东", "广东"
       << <<"U6C5F", "U82CF">>, <<"U6C5F", "U82CF">> >>,  \* "江苏", "江苏"
       << <<"U6D59", "U6C5F">>, <<"U6D59", "U6C5F">> >>,  \* "浙江", "浙江"
       << <<"U5C71", "U4E1C">>, <<"U5C71", "U4E1C">> >>,  \* "山东", "山东"
       << <<"U6CB3", "U5357">>, <<"U6CB3", "U5357">> >>,  \* "河南", "河南"
       << <<"U56DB", "U5DDD">>, <<"U56DB", "U5DDD">> >>,  \* "四川", "四川"
       << <<"U6E56", "U5317">>, <<"U6E56", "U5317">> >>,  \* "湖北", "湖北"
       << <<"U6CB3", "U5317">>, <<"U6CB3", "U5317">> >>,  \* "河北", "河北"
       << <<"U5B89", "U5FBD">>, <<"U5B89", "U5FBD">> >>,  \* "安徽", "安徽"
       << <<"U798F", "U5EFA">>, <<"U798F", "U5EFA">> >>,  \* "福建", "福建"
       << <<"U6C5F", "U897F">>, <<"U6C5F", "U897F">> >>,  \* "江西", "江西"
       << <<"U8FBD", "U5B81">>, <<"U8FBD", "U5B81">> >>,  \* "辽宁", "辽宁"
       << <<"U9655", "U897F">>, <<"U9655", "U897F">> >>,  \* "陕西", "陕西"
       << <<"U5C71", "U897F">>, <<"U5C71", "U897F">> >>,  \* "山西", "山西"
       << <<"U91CD", "U5E86">>, <<"U91CD", "U5E86">> >>,  \* "重庆", "重庆"
       << <<"U5929", "U6D25">>, <<"U5929", "U6D25">> >>,  \* "天津", "天津"
       << <<"U4E91", "U5357">>, <<"U4E91", "U5357">> >>,  \* "云南", "云南"
       << <<"U8D35", "U5DDE">>, <<"U8D35", "U5DDE">> >>,  \* "贵州", "贵州"
       << <<"U5E7F", "U897F">>, <<"U5E7F", "U897F">> >>,  \* "广西", "广西"
       << <<"U6D77", "U5357">>, <<"U6D77", "U5357">> >>,  \* "海南", "海南"
       << <<"U7518", "U8083">>, <<"U7518", "U8083">> >>,  \* "甘肃", "甘肃"
       << <<"U9752", "U6D77">>, <<"U9752", "U6D77">> >>,  \* "青海", "青海"
       << <<"U5B81", "U590F">>, <<"U5B81", "U590F">> >>,  \* "宁夏", "宁夏"
       << <<"U65B0", "U7586">>, <<"U65B0", "U7586">> >>,  \* "新疆", "新疆"
       << <<"U897F", "U85CF">>, <<"U897F", "U85CF">> >>,  \* "西藏", "西藏"
       << <<"U5185", "U8499", "U53E4">>, <<"U5185", "U8499", "U53E4">> >>,  \* "内蒙古", "内蒙古"
       << <<"U9ED1", "U9F99", "U6C5F">>, <<"U9ED1", "U9F99", "U6C5F">> >>,  \* "黑龙江", "黑龙江"
       << <<"U5409", "U6797">>, <<"U5409", "U6797">> >>,  \* "吉林", "吉林"
       << <<"U672A", "U77E5", "U5730", "U533A">>, <<"U5176", "U4ED6">> >> >>  \* "未知地区", "其他"

MapKeys(m) == {m[i][1] : i \in 1..Len(m)}
MapValues(m) == {m[i][2] : i \in 1..Len(m)}

\* m[key] for a key of m
MapAt(m, key) == m[CHOOSE i \in 1..Len(m) : m[i][1] = key][2]

\* m.get(key, default)
MapGet(m, key, default) == IF key \in MapKeys(m) THEN MapAt(m, key) ELSE default

\* for full_name, province in m.items(): if full_name in s: return province
FirstKeyIn(m, s) ==
    LET hits == {i \in 1..Len(m) : Contains(m[i][1], s)}
    IN  IF hits = {} THEN s ELSE m[Min(hits)][2]

\* the rules applied without the test for a missing or empty origin
extract_province_no_null_check(location) ==
    LET location_str == str(location)
    IN  IF location_str \in MapKeys(province_map)
        THEN MapAt(province_map, location_str)
        ELSE IF Contains(<<"-">>, location_str)
        THEN LET province_part == SplitFirst(location_str, "-")
             IN  MapGet(province_map, province_part, province_part)
        ELSE FirstKeyIn(province_map, location_str)

\* the substring scan run before the separator rule
extract_province_scan_first(location) ==
    IF isna(location) \/ location = <<>> THEN UNKNOWN
    ELSE LET location_str == str(location)
             scanned == FirstKeyIn(province_map, location_str)
         IN  IF location_str \in MapKeys(province_map)
             THEN MapAt(province_map, location_str)
             ELSE IF scanned # location_str THEN scanned
             ELSE IF Contains(<<"-">>, location_str)
             THEN LET province_part == SplitFirst(location_str, "-")
                  IN  MapGet(province_map, province_part, province_part)
             ELSE location_str

extract_province(location) ==
    IF isna(location) \/ location = <<>> THEN UNKNOWN
    ELSE LET location_str == str(location)
         IN  IF location_str \in MapKeys(province_map)
             THEN MapAt(province_map, location_str)
             ELSE IF Contains(<<"-">>, location_str)
             THEN LET province_part == SplitFirst(location_str, "-")
                  IN  MapGet(province_map, province_part, province_part)
             ELSE FirstKeyIn(province_map, location_str)

-----------------------------------------------------------------------------
(* Datasets.  A DataFrame is its column names in order and its rows in      *)
(* order; a row maps every column name to a cell value.                    *)

\* "序号", "姓名", "性别", "年龄", "出生日期", "政治面貌", "籍贯"
COL_SEQ == "XuHao"
COL_NAME == "XingMing"
COL_GENDER == "XingBie"
COL_AGE == "NianLing"
COL_BIRTH == "ChuShengRiQi"
COL_POLITICAL == "ZhengZhiMianMao"
COL_ORIGIN == "JiGuan"
\* "应聘状态", "应聘职位", "最高学历", "最高学历专业", "专业类型"
COL_STATUS == "YingPinZhuangTai"
COL_POSITION == "YingPinZhiWei"
COL_EDUCATION == "ZuiGaoXueLi"
COL_MAJOR == "ZuiGaoXueLiZhuanYe"
COL_MAJOR_TYPE == "ZhuanYeLeiXing"
\* "最高学历毕业院校"
COL_INSTITUTION == "ZuiGaoXueLiBiYeYuanXiao"

REQUIRED_COLUMNS ==
    << COL_SEQ, COL_NAME, COL_GENDER, COL_AGE, COL_BIRTH, COL_POLITICAL,
       COL_ORIGIN, COL_STATUS, COL_POSITION, COL_EDUCATION, COL_MAJOR,
       COL_MAJOR_TYPE, COL_INSTITUTION, COL_CATEGORY >>

\* the derived columns: "是否为海外院校", "最高学历毕业院校类别-分类1",
\* "籍贯-省份", "出生年代"
COL_IS_OVERSEAS == "ShiFouWeiHaiWaiYuanXiao"
COL_TIER == "ZuiGaoXueLiBiYeYuanXiaoLeiBie-FenLei1"
COL_PROVINCE == "JiGuan-ShengFen"
COL_GENERATION == "ChuShengNianDai"

\* "是", "否"
YES == <<"U662F">>  \* "是"
NO == <<"U5426">>  \* "否"

SeqToSet(q) == {q[i] : i \in 1..Len(q)}

\* len(df)
len(d) == Len(d.rows)

\* df.copy(): a new frame holding the same columns and values
copy(d) == [columns |-> d.columns, rows |-> d.rows]

\* df[name] = cells, one cell per row: the column is appended when it is new
\* and overwritten in place when it exists
SetColumn(d, name, cells) ==
    [columns |-> IF name \in SeqToSet(d.columns) THEN d.columns
                 ELSE Append(d.columns, name),
     rows |-> [i \in 1..Len(d.rows) |->
                 [c \in DOMAIN d.rows[i] \cup {name} |->
                     IF c = name THEN cells[i] ELSE d.rows[i][c]]]]

-----------------------------------------------------------------------------
(* DataProcessor.enhance_data *)

IsOverseas(row) ==
    IF Contains(OVERSEAS, str(row[COL_CATEGORY])) THEN YES ELSE NO
ProvinceOf(row) == extract_province(row[COL_ORIGIN])

\* the cohort derived again from the derived column once it exists
GenerationOf_from_derived(row) ==
    IF COL_GENERATION \in DOMAIN row
    THEN calculate_generation(row[COL_GENERATION])
    ELSE calculate_generation(row[COL_BIRTH])

GenerationOf(row) == calculate_generation(row[COL_BIRTH])

\* the columns enhance_data reads with df[...], which raises KeyError for a
\* column the frame lacks
SOURCE_COLUMNS == {COL_CATEGORY, COL_ORIGIN, COL_BIRTH}

enhance_data(d) ==
    LET df0 == copy(d)
        df1 == SetColumn(df0, COL_IS_OVERSEAS,
                         [i \in 1..len(df0) |-> IsOverseas(df0.rows[i])])
        df2 == SetColumn(df1, COL_TIER,
                         [i \in 1..len(df1) |-> classify_institution(df1.rows[i])])
        df3 == SetColumn(df2, COL_PROVINCE,
                         [i \in 1..len(df2) |-> ProvinceOf(df2.rows[i])])
        df4 == SetColumn(df3, COL_GENERATION,
                         [i \in 1..len(df3) |-> GenerationOf(df3.rows[i])])
    IN  df4

\* the derived columns assigned to the caller's frame: no df.copy()
enhance_data_call_in_place(d) ==
    IF ~(SOURCE_COLUMNS \subseteq SeqToSet(d.columns))
    THEN [argument |-> d, outcome |-> Raised("KeyError")]
    ELSE [argument |-> enhance_data(d), outcome |-> Returned(enhance_data(d))]

\* a call of enhance_data: the caller's frame after the call and the outcome.
\* The assignments go to the copy, so the argument keeps its value.
enhance_data_call(d) ==
    IF ~(SOURCE_COLUMNS \subseteq SeqToSet(d.columns))
    THEN [argument |-> d, outcome |-> Raised("KeyError")]
    ELSE [argument |-> d, outcome |-> Returned(enhance_data(d))]

-----------------------------------------------------------------------------
(* DataProcessor.generate_statistics *)

\* "两方", "三方"
BILATERAL == <<"U4E24", "U65B9">>  \* "两方"
TRILATERAL == <<"U4E09", "U65B9">>  \* "三方"

\* the cells of a column, in row order
Column(d, name) == [i \in 1..Len(d.rows) |-> d.rows[i][name]]

\* str.contains(pat, na=True): a missing cell counts as a match
CountContains_na_matches(d, name, pat) ==
    Cardinality({i \in 1..Len(d.rows) :
                    isna(d.rows[i][name]) \/ Contains(pat, d.rows[i][name])})

\* len(df[df[name].str.contains(pat, na=False)])
CountContains(d, name, pat) ==
    Cardinality({i \in 1..Len(d.rows) :
                    ~isna(d.rows[i][name]) /\ Contains(pat, d.rows[i][name])})

\* len(df[df[name] == value])
CountEqual(d, name, value) ==
    Cardinality({i \in 1..Len(d.rows) : d.rows[i][name] = value})

\* the distinct values of cells, in order of first appearance
RECURSIVE Distinct(_)
Distinct(cells) ==
    IF cells = <<>> THEN <<>>
    ELSE LET front == Distinct(SubSeq(cells, 1, Len(cells) - 1))
             last == cells[Len(cells)]
         IN  IF last \in SeqToSet(front) THEN front ELSE Append(front, last)

Occurrences(cells, v) == Cardinality({i \in 1..Len(cells) : cells[i] = v})

\* the cells value_counts() counts: with dropna=True, all but the missing
Counted(cells) == SelectSeq(cells, LAMBDA v : ~isna(v))

\* value_counts(dropna=False): a missing value is a category like any other
value_counts_keep_null(cells) ==
    LET keys == Distinct(cells)
        n == Len(keys)
        count(k) == Occurrences(cells, keys[k])
        before(j, k) == count(j) > count(k) \/ (count(j) = count(k) /\ j < k)
        rank(k) == Cardinality({j \in 1..n : before(j, k)}) + 1
    IN  [r \in 1..n |-> LET k == CHOOSE k \in 1..n : rank(k) = r
                        IN  <<keys[k], count(k)>>]

\* value_counts(sort=False): the distinct values in order of first appearance
value_counts_unsorted(cells) ==
    LET keys == Distinct(Counted(cells))
    IN  [k \in 1..Len(keys) |-> <<keys[k], Occurrences(cells, keys[k])>>]

\* Series.value_counts(): <<value, count>> of every distinct value that is
\* not missing, by descending count, equal counts in order of first appearance
value_counts(cells) ==
    LET keys == Distinct(Counted(cells))
        n == Len(keys)
        count(k) == Occurrences(cells, keys[k])
        before(j, k) == count(j) > count(k) \/ (count(j) = count(k) /\ j < k)
        rank(k) == Cardinality({j \in 1..n : before(j, k)}) + 1
    IN  [r \in 1..n |-> LET k == CHOOSE k \in 1..n : rank(k) = r
                        IN  <<keys[k], count(k)>>]

\* the percentage cut off after the first decimal instead of rounded
Percentage_truncated(v, total_count) == (1000 * v) \div total_count

\* round(v / total_count * 100, 1), in tenths of a percent.  A tie between
\* two tenths needs total_count to be a multiple of 16.
Percentage(v, total_count) == (2000 * v + total_count) \div (2 * total_count)

\* the list comprehension over counts.items()
Distribution(d, column_name) ==
    LET counts == value_counts(Column(d, column_name))
        kept == SelectSeq(counts, LAMBDA kv : kv[1] # None)
    IN  [e \in 1..Len(kept) |->
            [name |-> kept[e][1],
             count |-> kept[e][2],
             percentage |-> Percentage(kept[e][2], len(d))]]

\* (stat_key, column_name)
dimensions ==
    << <<"political_status", COL_POLITICAL>>,
       <<"gender", COL_GENDER>>,
       <<"age_distribution", COL_GENERATION>>,
       <<"education", COL_EDUCATION>>,
       <<"institution_category", COL_TIER>>,
       <<"major_type", COL_MAJOR_TYPE>>,
       <<"province_distribution", COL_PROVINCE>> >>

\* "清华大学", "北京大学"
TSINGHUA == <<"U6E05", "U534E", "U5927", "U5B66">>  \* "清华大学"
PEKING == <<"U5317", "U4EAC", "U5927", "U5B66">>  \* "北京大学"

special_schools ==
    << <<"U6E05", "U534E", "U5927", "U5B66">>, <<"U5317", "U4EAC", "U5927", "U5B66">>, <<"U540C", "U6D4E", "U5927", "U5B66">>, <<"U4E2D", "U5357", "U5927", "U5B66">>, <<"U5317", "U4EAC", "U4EA4", "U901A", "U5927", "U5B66">>,  \* "清华大学", "北京大学", "同济大学", "中南大学", "北京交通大学"
       <<"U897F", "U5357", "U4EA4", "U901A", "U5927", "U5B66">>, <<"U5170", "U5DDE", "U4EA4", "U901A", "U5927", "U5B66">>, <<"U5927", "U8FDE", "U4EA4", "U901A", "U5927", "U5B66">>, <<"U534E", "U4E1C", "U4EA4", "U901A", "U5927", "U5B66">> >>  \* "西南交通大学", "兰州交通大学", "大连交通大学", "华东交通大学"

\* the alliance entry kept from going below zero
_calculate_special_institutions_clamped(d) ==
    LET result == [school \in SeqToSet(special_schools) |->
                      CountEqual(d, COL_INSTITUTION, school)]
        c9_total == CountEqual(d, COL_TIER, C9)
        rest == c9_total - result[TSINGHUA] - result[PEKING]
    IN  [school \in SeqToSet(special_schools) \cup {C9} |->
            IF school = C9 THEN (IF rest < 0 THEN 0 ELSE rest) ELSE result[school]]

_calculate_special_institutions(d) ==
    LET result == [school \in SeqToSet(special_schools) |->
                      CountEqual(d, COL_INSTITUTION, school)]
        c9_total == CountEqual(d, COL_TIER, C9)
        tsinghua == result[TSINGHUA]
        peking == result[PEKING]
    IN  [school \in SeqToSet(special_schools) \cup {C9} |->
            IF school = C9 THEN c9_total - tsinghua - peking ELSE result[school]]

generate_statistics(d) ==
    LET total_count == len(d)
        basic == [total_count |-> total_count,
                  bilateral_count |-> CountContains(d, COL_STATUS, BILATERAL),
                  trilateral_count |-> CountContains(d, COL_STATUS, TRILATERAL)]
        by_dimension ==
            [stat_key \in {dimensions[i][1] : i \in 1..Len(dimensions)} |->
                LET i == CHOOSE i \in 1..Len(dimensions) : dimensions[i][1] = stat_key
                IN  Distribution(d, dimensions[i][2])]
    IN  basic @@ by_dimension
            @@ [special_institutions |-> _calculate_special_institutions(d)]

\* the dtype pandas gives a column read from a spreadsheet: float64 when
\* every cell of a non-empty column is empty, else object
IsFloatColumn(d, name) ==
    len(d) > 0 /\ \A i \in 1..len(d) : d.rows[i][name] = NaN

\* the percentage base divided by before the entries are listed
generate_statistics_run_divides_first(d) ==
    IF IsFloatColumn(d, COL_STATUS) THEN Raised("AttributeError")
    ELSE IF len(d) = 0 THEN Raised("ZeroDivisionError")
    ELSE Returned(generate_statistics(d))

\* a call of generate_statistics: the .str accessor of a column that holds
\* no text raises AttributeError
generate_statistics_run(d) ==
    IF IsFloatColumn(d, COL_STATUS) THEN Raised("AttributeError")
    ELSE Returned(generate_statistics(d))

-----------------------------------------------------------------------------
(* ReportGenerator.generate_markdown_report.  The document is modelled by   *)
(* what its sentences print: per section the clauses "label count人，       *)
(* 占比percentage%" in order, or a placeholder text, and the images.  The   *)
(* fixed prose and the two date stamps are left out.                        *)

\* the labels the narrative prints in the first five sections
POLITICAL_LABELS == << <<"U5171", "U9752", "U56E2", "U5458">>, <<"U4E2D", "U56FD", "U5171", "U4EA7", "U515A", "U5458">>, <<"U7FA4", "U4F17">> >>  \* "共青团员", "中国共产党员", "群众"
GENDER_LABELS == << <<"U7537">>, <<"U5973">> >>  \* "男", "女"
AGE_LABELS == << <<"0", "0", "U540E">>, <<"9", "5", "U540E">>, <<"9", "0", "U540E">> >>  \* "00后", "95后", "90后"
EDUCATION_LABELS == << <<"U7855", "U58EB", "U7814", "U7A76", "U751F">>, <<"U672C", "U79D1">>, <<"U535A", "U58EB", "U7814", "U7A76", "U751F">> >>  \* "硕士研究生", "本科", "博士研究生"
INSTITUTION_LABELS == << <<"2", "1", "1", "U9AD8", "U6821">>, <<"9", "8", "5", "U9AD8", "U6821">>, <<"U672C", "U5206", "U7C7B", "U9662", "U6821">> >>  \* "211高校", "985高校", "本分类院校"

\* "暂无专业类型数据。", "暂无籍贯分布数据。"
NO_MAJOR_DATA == <<"U6682", "U65E0", "U4E13", "U4E1A", "U7C7B", "U578B", "U6570", "U636E", "U3002">>  \* "暂无专业类型数据。"
NO_PROVINCE_DATA == <<"U6682", "U65E0", "U7C4D", "U8D2F", "U5206", "U5E03", "U6570", "U636E", "U3002">>  \* "暂无籍贯分布数据。"

PNG_PREFIX == <<"d", "a", "t", "a", ":", "i", "m", "a", "g", "e", "/", "p", "n", "g", ";", "b", "a", "s", "e", "6", "4", ",">>

\* s.startswith(prefix)
StartsWith(s, prefix) ==
    Len(s) >= Len(prefix) /\ SubSeq(s, 1, Len(prefix)) = prefix

process_chart_image(image_data) ==
    IF ~StartsWith(image_data, PNG_PREFIX) THEN PNG_PREFIX \o image_data
    ELSE image_data

\* f"{label}{entry['count']}人，占比{entry['percentage']}%"
Clause(label, entry) ==
    [label |-> label, count |-> entry.count, percentage |-> entry.percentage]

\* a sentence that prints labels[k] next to data[k - 1]
PositionalSentence(labels, data) ==
    [k \in 1..Len(labels) |-> Clause(labels[k], data[k])]

\* the sentence of the first n entries under their own names
NamedSentence(data, n) == [k \in 1..n |-> Clause(data[k].name, data[k])]

\* if len(data) >= 3 ... elif len(data) >= 2 ... elif len(data) >= 1 ... else
GuardedSentence(data, placeholder) ==
    IF Len(data) >= 3 THEN NamedSentence(data, 3)
    ELSE IF Len(data) >= 2 THEN NamedSentence(data, 2)
    ELSE IF Len(data) >= 1 THEN NamedSentence(data, 1)
    ELSE << [text |-> placeholder] >>

\* the order in which the flagship tallies are printed
SPECIAL_ORDER ==
    << <<"U6E05", "U534E", "U5927", "U5B66">>, <<"U5317", "U4EAC", "U5927", "U5B66">>, <<"C", "9", "U8054", "U76DF">>, <<"U540C", "U6D4E", "U5927", "U5B66">>, <<"U4E2D", "U5357", "U5927", "U5B66">>,  \* "清华大学", "北京大学", "C9联盟", "同济大学", "中南大学"
       <<"U5317", "U4EAC", "U4EA4", "U901A", "U5927", "U5B66">>, <<"U897F", "U5357", "U4EA4", "U901A", "U5927", "U5B66">>, <<"U5170", "U5DDE", "U4EA4", "U901A", "U5927", "U5B66">>, <<"U5927", "U8FDE", "U4EA4", "U901A", "U5927", "U5B66">>,  \* "北京交通大学", "西南交通大学", "兰州交通大学", "大连交通大学"
       <<"U534E", "U4E1C", "U4EA4", "U901A", "U5927", "U5B66">> >>  \* "华东交通大学"

\* special_data.get(school, 0)
TallyGet(special_data, school) ==
    IF school \in DOMAIN special_data THEN special_data[school] ELSE 0

\* the schools with a tally above zero
SpecialSentence(special_data) ==
    LET listed == SelectSeq(SPECIAL_ORDER, LAMBDA school : TallyGet(special_data, school) > 0)
    IN  [k \in 1..Len(listed) |->
            [label |-> listed[k], count |-> special_data[listed[k]]]]

SECTIONS ==
    {"political_status", "gender", "age_distribution", "education",
     "institution_category", "major_type", "province_distribution"}

generate_markdown_report(statistics, chart_images) ==
    LET processed_images ==
            [key \in DOMAIN chart_images |-> process_chart_image(chart_images[key])]
    IN  [overall |-> <<statistics.total_count, statistics.bilateral_count,
                       statistics.trilateral_count>>,
         political_status |->
            PositionalSentence(POLITICAL_LABELS, statistics.political_status),
         gender |-> PositionalSentence(GENDER_LABELS, statistics.gender),
         age_distribution |->
            PositionalSentence(AGE_LABELS, statistics.age_distribution),
         education |-> PositionalSentence(EDUCATION_LABELS, statistics.education),
         institution_category |->
            PositionalSentence(INSTITUTION_LABELS, statistics.institution_category),
         special_institutions |->
            IF "special_institutions" \in DOMAIN statistics
            THEN SpecialSentence(statistics.special_institutions)
            ELSE <<>>,
         major_type |-> GuardedSentence(statistics.major_type, NO_MAJOR_DATA),
         province_distribution |->
            GuardedSentence(statistics.province_distribution, NO_PROVINCE_DATA),
         images |-> [key \in DOMAIN processed_images \cap SECTIONS |->
                        processed_images[key]]]

\* a call of generate_markdown_report: data[k] on a list of k entries or
\* fewer raises IndexError
generate_markdown_report_run(statistics, chart_images) ==
    IF \/ Len(statistics.political_status) < Len(POLITICAL_LABELS)
       \/ Len(statistics.gender) < Len(GENDER_LABELS)
       \/ Len(statistics.age_distribution) < Len(AGE_LABELS)
       \/ Len(statistics.education) < Len(EDUCATION_LABELS)
       \/ Len(statistics.institution_category) < Len(INSTITUTION_LABELS)
    THEN Raised("IndexError")
    ELSE Returned(generate_markdown_report(statistics, chart_images))

\* the chart images a request carries: none, one without the data-URL
\* prefix, two with it
ChartImages ==
    { [key \in {} |-> <<>>],
      [key \in {"gender"} |-> <<"i", "V", "B", "O", "R", "w", "0">>],
      [key \in {"gender", "major_type"} |-> PNG_PREFIX \o <<"i", "V", "B", "O", "R", "w", "0">>] }

-----------------------------------------------------------------------------
(* Pipeline runs: a dataset is enriched, enriched once more, aggregated and *)
(* reported                                                                *)

\* the largest dataset has this many records
MaxRecords == 3

\* a record of the spreadsheet; the columns no stage reads hold fixed values
Record(gender, birth, political, origin, status, education, major_type, institution, category) ==
    [c \in SeqToSet(REQUIRED_COLUMNS) |->
        CASE c = COL_GENDER -> gender
          [] c = COL_BIRTH -> birth
          [] c = COL_POLITICAL -> political
          [] c = COL_ORIGIN -> origin
          [] c = COL_STATUS -> status
          [] c = COL_EDUCATION -> education
          [] c = COL_MAJOR_TYPE -> major_type
          [] c = COL_INSTITUTION -> institution
          [] c = COL_CATEGORY -> category
          [] c = COL_SEQ -> <<"1">>
          [] c = COL_NAME -> <<"U67D0", "U67D0">>  \* "某某"
          [] c = COL_AGE -> <<"2", "5">>
          [] c = COL_POSITION -> <<"U5DE5", "U7A0B", "U5E08">>  \* "工程师"
          [] c = COL_MAJOR -> <<"U8BA1", "U7B97", "U673A">>]  \* "计算机"

\* records as uploads hold them: complete ones, one with an origin that has a
\* separator, one with an origin the alias table lacks, mixed category tags,
\* a birth year before 1990, empty cells
SampleRecords ==
    { Record(<<"U7537">>, <<"1", "9", "9", "8", "-", "0", "1", "-", "0", "1">>, <<"U4E2D", "U5171", "U515A", "U5458">>, <<"U6E56", "U5357", "U957F", "U6C99", "U5E02">>, <<"U5DF2", "U7B7E", "U7EA6", "(", "U4E24", "U65B9", ")">>,  \* "男", "中共党员", "湖南长沙市", "已签约(两方)"
             <<"U672C", "U79D1">>, <<"U5DE5", "U79D1">>, <<"U6E05", "U534E", "U5927", "U5B66">>, <<"C", "9", "U8054", "U76DF">>),  \* "本科", "工科", "清华大学", "C9联盟"
      Record(<<"U5973">>, <<"2", "0", "0", "1", "/", "0", "7", "/", "1", "5">>, <<"U5171", "U9752", "U56E2", "U5458">>, <<"U5317", "U4EAC", "U671D", "U9633">>, <<"U5DF2", "U7B7E", "U7EA6", "(", "U4E24", "U65B9", ")">>,  \* "女", "共青团员", "北京朝阳", "已签约(两方)"
             <<"U7855", "U58EB", "U7814", "U7A76", "U751F">>, <<"U7BA1", "U7406">>, <<"U5317", "U4EAC", "U5927", "U5B66">>, <<"U6D77", "U5916", "U9662", "U6821", ",", "Q", "S", "1", "-", "5", "0">>),  \* "硕士研究生", "管理", "北京大学", "海外院校,QS1-50"
      Record(<<"U7537">>, <<"1", "9", "8", "8", "-", "0", "3", "-", "0", "1">>, <<"U7FA4", "U4F17">>, <<"U706B", "U661F">>, <<"U5DF2", "U7B7E", "U7EA6", "(", "U4E09", "U65B9", ")">>,  \* "男", "群众", "火星", "已签约(三方)"
             <<"U672C", "U79D1">>, <<"U7406", "U79D1">>, <<"U4E2D", "U5357", "U5927", "U5B66">>, <<"9", "8", "5", ",", "2", "1", "1">>),  \* "本科", "理科", "中南大学"
      Record(<<"U5973">>, <<"2", "0", "0", "5">>, <<"U5171", "U9752", "U56E2", "U5458">>, <<"U5E7F", "U4E1C", "-", "U6DF1", "U5733">>, <<"U5DF2", "U7B7E", "U7EA6", "(", "U4E24", "U65B9", ")">>,  \* "女", "共青团员", "广东-深圳", "已签约(两方)"
             <<"U535A", "U58EB", "U7814", "U7A76", "U751F">>, <<"U5DE5", "U79D1">>, <<"U540C", "U6D4E", "U5927", "U5B66">>, <<"U6D77", "U5916", "U9662", "U6821", ",", "C", "9", "U8054", "U76DF">>),  \* "博士研究生", "工科", "同济大学", "海外院校,C9联盟"
      Record(<<"U7537">>, <<>>, <<"U7FA4", "U4F17">>, <<"U6DF1", "U5733", "-", "U5E7F", "U4E1C">>, <<"U5F85", "U5B9A">>,  \* "男", "群众", "深圳-广东", "待定"
             <<"U672C", "U79D1">>, <<"U5DE5", "U79D1">>, <<"U5317", "U4EAC", "U5927", "U5B66">>, <<"C", "9", "U8054", "U76DF">>),  \* "本科", "工科", "北京大学", "C9联盟"
      Record(NaN, NaN, NaN, NaN, NaN, NaN, NaN, NaN, NaN) }

\* all sequences of at most n members of S
RECURSIVE SeqsUpTo(_, _)
SeqsUpTo(S, n) ==
    IF n = 0 THEN {<<>>}
    ELSE LET shorter == SeqsUpTo(S, n - 1)
         IN  shorter \cup {Append(q, x) : q \in shorter, x \in S}

Datasets ==
    {[columns |-> REQUIRED_COLUMNS, rows |-> rows] :
        rows \in SeqsUpTo(SampleRecords, MaxRecords)}

\* DataManager.current_data is None
NoData == [none |-> TRUE]

\* no request has been received, and none answered
NoRequest == [endpoint |-> "none"]
NoResponse == [status |-> 0, body |-> [none |-> TRUE]]

\* the server variables while no server runs
ServerIdle ==
    /\ uploads_dir = <<>>
    /\ history_file = [exists |-> FALSE, records |-> <<>>]
    /\ current_data = NoData
    /\ current_description = <<>>
    /\ current_upload_time = <<>>
    /\ reports_dir = {}
    /\ now = 0
    /\ awaiting = "none"
    /\ request = NoRequest
    /\ response = NoResponse

\* the classifier variables while no classifier runs
ClassifierIdle ==
    /\ fn = "none"
    /\ arg = <<>>
    /\ ret = NotRun

InitPipeline ==
    /\ df \in Datasets
    /\ df_enhanced = NotRun
    /\ df_again = NotRun
    /\ stats = NotRun
    /\ report = NotRun
    /\ ClassifierIdle
    /\ ServerIdle

\* df_enhanced = DataProcessor.enhance_data(df)
EnhanceData ==
    /\ df_enhanced = NotRun
    /\ LET call == enhance_data_call(df)
       IN  /\ df' = call.argument
           /\ df_enhanced' = call.outcome
    /\ UNCHANGED <<df_again, stats, report, classifier_vars, server_vars>>

\* enhance_data applied to its own output
EnhanceAgain ==
    /\ df_enhanced # NotRun
    /\ df_enhanced.exc = "none"
    /\ df_again = NotRun
    /\ LET call == enhance_data_call(df_enhanced.value)
       IN  /\ df_enhanced' = Returned(call.argument)
           /\ df_again' = call.outcome
    /\ UNCHANGED <<df, stats, report, classifier_vars, server_vars>>

\* stats = DataProcessor.generate_statistics(df_enhanced)
GenerateStatistics ==
    /\ df_enhanced # NotRun
    /\ df_enhanced.exc = "none"
    /\ stats = NotRun
    /\ stats' = generate_statistics_run(df_enhanced.value)
    /\ UNCHANGED <<df, df_enhanced, df_again, report, classifier_vars, server_vars>>

\* report = ReportGenerator.generate_markdown_report(stats, chart_images)
GenerateMarkdownReport ==
    /\ stats # NotRun
    /\ stats.exc = "none"
    /\ report = NotRun
    /\ \E chart_images \in ChartImages :
          report' = generate_markdown_report_run(stats.value, chart_images)
    /\ UNCHANGED <<df, df_enhanced, df_again, stats, classifier_vars, server_vars>>

NextPipeline ==
    EnhanceData \/ EnhanceAgain \/ GenerateStatistics \/ GenerateMarkdownReport

SpecPipeline == InitPipeline /\ [][NextPipeline]_vars

-----------------------------------------------------------------------------
(* Classifier runs: one classifier applied to one raw cell value *)

\* the longest text is this many pieces of the respective vocabulary
MaxTagPieces == 3
MaxDatePieces == 3
MaxOriginPieces == 3

\* all texts of at most n pieces
RECURSIVE Texts(_, _)
Texts(pieces, n) ==
    IF n = 0 THEN {<<>>}
    ELSE LET shorter == Texts(pieces, n - 1)
         IN  shorter \cup {s \o p : s \in shorter, p \in pieces}

\* the markers the classifier looks for, a separator and an unknown tag
TagPieces ==
    {categories[i] : i \in 1..Len(categories)}
        \cup {OVERSEAS, QS1_50, QS100, <<",">>, <<"U672A", "U77E5", "U7C7B", "U578B">>}  \* "未知类型"

\* the years at the band limits, a month, the separators, characters that
\* int() accepts around or between digits and a letter, which it rejects
DatePieces ==
    { <<"1", "9", "8", "9">>, <<"1", "9", "9", "0">>, <<"1", "9", "9", "4">>, <<"1", "9", "9", "5">>, <<"1", "9", "9", "9">>, <<"2", "0", "0", "0">>, <<"2", "0", "0", "4">>,
      <<"2", "0", "0", "5">>, <<"0", "7">>, <<"-">>, <<"/">>, <<" ">>, <<"+">>, <<"_">>, <<"x">> }

\* some keys of the alias table, the separator, parts of region names and a
\* name the table lacks
OriginPieces ==
    { <<"U6E56", "U5357", "U957F", "U6C99">>, <<"U6E56", "U5357">>, <<"U5317", "U4EAC">>, <<"U4E0A", "U6D77">>, <<"U6E56", "U5317">>, <<"U6D77", "U5357">>, <<"U9752", "U6D77">>,  \* "湖南长沙", "湖南", "北京", "上海", "湖北", "海南", "青海"
      <<"U5409", "U6797">>, <<"U672A", "U77E5", "U5730", "U533A">>, <<"-">>, <<"U957F", "U6C99">>, <<"U4EAC", "U5C71">>, <<"U5DDE">>, <<"U706B", "U661F">> }  \* "吉林", "未知地区", "长沙", "京山", "州", "火星"

\* the row has no category column at all
Missing == <<"no such column">>

\* the cell values each classifier is applied to
TagInputs == Texts(TagPieces, MaxTagPieces) \cup {NaN, Missing}
DateInputs == Texts(DatePieces, MaxDatePieces) \cup {NaN}
OriginInputs == Texts(OriginPieces, MaxOriginPieces) \cup {NaN}

\* the pipeline variables while no pipeline runs
PipelineIdle ==
    /\ df = <<>>
    /\ df_enhanced = NotRun
    /\ df_again = NotRun
    /\ stats = NotRun
    /\ report = NotRun

InitClassifier ==
    /\ fn = "none"
    /\ arg \in TagInputs \cup DateInputs \cup OriginInputs
    /\ ret = NotRun
    /\ PipelineIdle
    /\ ServerIdle

\* the row classify_institution is handed
RowOf(v) == IF v = Missing THEN [c \in {} |-> <<>>] ELSE [c \in {COL_CATEGORY} |-> v]

ClassifyInstitution ==
    /\ fn = "none"
    /\ arg \in TagInputs
    /\ fn' = "classify_institution"
    /\ ret' = Returned(classify_institution(RowOf(arg)))
    /\ UNCHANGED <<arg, pipeline_vars, server_vars>>

CalculateGeneration ==
    /\ fn = "none"
    /\ arg \in DateInputs
    /\ fn' = "calculate_generation"
    /\ ret' = calculate_generation_run(arg)
    /\ UNCHANGED <<arg, pipeline_vars, server_vars>>

ExtractProvince ==
    /\ fn = "none"
    /\ arg \in OriginInputs
    /\ fn' = "extract_province"
    /\ ret' = Returned(extract_province(arg))
    /\ UNCHANGED <<arg, pipeline_vars, server_vars>>

NextClassifier == ClassifyInstitution \/ CalculateGeneration \/ ExtractProvince

SpecClassifier == InitClassifier /\ [][NextClassifier]_vars

-----------------------------------------------------------------------------
(* Properties of the classifiers, checked under SpecClassifier *)

\* the tag text classify_institution reads from the row
TagRead == IF arg = Missing THEN <<>> ELSE str(arg)

\* the three overseas tiers and the nine domestic tiers, as the
\* specification lists them
OverseasTiers == { <<"Q", "S", "1", "-", "5", "0">>, <<"Q", "S", "1", "0", "0">>, <<"U5176", "U4ED6", "U6D77", "U5916", "U9662", "U6821">> }  \* "其他海外院校"
DomesticPriority ==
    << <<"C", "9", "U8054", "U76DF">>, <<"9", "8", "5">>, <<"2", "1", "1">>, <<"U8F68", "U9053", "U4EA4", "U901A", "U5408", "U4F5C", "U9662", "U6821">>, <<"U4F18", "U52BF", "U5B66", "U79D1", "U9662", "U6821">>,  \* "C9联盟", "轨道交通合作院校", "优势学科院校"
       <<"U6E56", "U5357", "U7701", "U77E5", "U540D", "U9AD8", "U6821">>, <<"U521B", "U65B0", "U578B", "U5927", "U5B66">>, <<"U5176", "U4ED6", "U7B7E", "U5B57", "U589E", "U8865", "U9662", "U6821">> >>  \* "湖南省知名高校", "创新型大学", "其他签字增补院校"
DomesticTiers == {DomesticPriority[i] : i \in 1..8} \cup { <<"U5176", "U4ED6">> }  \* "其他"

\* C1: a category tag that contains the overseas marker is classified as
\* one of the three overseas tiers (QS1-50 before QS100 before other
\* overseas) and never as a domestic tier, whatever domestic markers the tag
\* also contains.
C1_OverseasPrecedence ==
    (fn = "classify_institution" /\ Contains(<<"U6D77", "U5916", "U9662", "U6821">>, TagRead)) =>  \* "海外院校"
        /\ ret.exc = "none"
        /\ ret.value =
              IF Contains(<<"Q", "S", "1", "-", "5", "0">>, TagRead) THEN <<"Q", "S", "1", "-", "5", "0">>
              ELSE IF Contains(<<"Q", "S", "1", "0", "0">>, TagRead) THEN <<"Q", "S", "1", "0", "0">>
              ELSE <<"U5176", "U4ED6", "U6D77", "U5916", "U9662", "U6821">>  \* "其他海外院校"
        /\ ret.value \in OverseasTiers
        /\ ret.value \notin DomesticTiers

\* a tag with the overseas marker and the C9 marker was classified
C1_Witness ==
    /\ fn = "classify_institution"
    /\ Contains(<<"U6D77", "U5916", "U9662", "U6821">>, TagRead)  \* "海外院校"
    /\ Contains(<<"C", "9", "U8054", "U76DF">>, TagRead)  \* "C9联盟"
    /\ ret.value = <<"U5176", "U4ED6", "U6D77", "U5916", "U9662", "U6821">>  \* "其他海外院校"

\* C2: a category tag without the overseas marker is classified as the
\* first entry of the priority list that occurs in it, as "其他" when none
\* occurs; every input, a missing tag included, yields a tier of the closed
\* set.
C2_DomesticPriority ==
    fn = "classify_institution" =>
        /\ ret.exc = "none"
        /\ ret.value \in OverseasTiers \cup DomesticTiers
        /\ ~Contains(<<"U6D77", "U5916", "U9662", "U6821">>, TagRead) =>  \* "海外院校"
              \/ \E i \in 1..8 :
                    /\ Contains(DomesticPriority[i], TagRead)
                    /\ \A j \in 1..(i - 1) : ~Contains(DomesticPriority[j], TagRead)
                    /\ ret.value = DomesticPriority[i]
              \/ /\ \A i \in 1..8 : ~Contains(DomesticPriority[i], TagRead)
                 /\ ret.value = <<"U5176", "U4ED6">>  \* "其他"

\* a tag with both "985" and "211" and no overseas marker was classified 985
C2_Witness ==
    /\ fn = "classify_institution"
    /\ ~Contains(<<"U6D77", "U5916", "U9662", "U6821">>, TagRead)  \* "海外院校"
    /\ Contains(<<"9", "8", "5">>, TagRead)
    /\ Contains(<<"2", "1", "1">>, TagRead)
    /\ ~Contains(<<"C", "9", "U8054", "U76DF">>, TagRead)  \* "C9联盟"
    /\ ret.value = <<"9", "8", "5">>

\* the argument is a date string whose leading year parses
YearParses ==
    /\ ~isna(arg)
    /\ arg # <<>>
    /\ int(YearSegment(arg)).exc = "none"
ParsedYear == int(YearSegment(arg)).value

\* C3: when the leading year parses to y the cohort is "05后" for y >= 2005,
\* "00后" for 2000 <= y < 2005, "95后" for 1995 <= y < 2000, "90后" for
\* 1990 <= y < 1995 and null for y < 1990; exactly one band applies.
C3_CohortBands ==
    (fn = "calculate_generation" /\ YearParses) =>
        LET y == ParsedYear
            bands == << <<y >= 2005, <<"0", "5", "U540E">>>>,  \* "05后"
                        <<2000 <= y /\ y < 2005, <<"0", "0", "U540E">>>>,  \* "00后"
                        <<1995 <= y /\ y < 2000, <<"9", "5", "U540E">>>>,  \* "95后"
                        <<1990 <= y /\ y < 1995, <<"9", "0", "U540E">>>>,  \* "90后"
                        <<y < 1990, None>> >>
        IN  /\ ret.exc = "none"
            /\ Cardinality({b \in 1..5 : bands[b][1]}) = 1
            /\ \A b \in 1..5 : bands[b][1] => ret.value = bands[b][2]

\* the year 2005 itself was classified
C3_Witness ==
    /\ fn = "calculate_generation"
    /\ YearParses
    /\ ParsedYear = 2005
    /\ ret.value = <<"0", "5", "U540E">>  \* "05后"

\* the segment the specification reads the year from: before the first "-"
\* if there is one, else before the first "/" if there is one, else the
\* first 4 characters
IsPrefixBefore(seg, s, sep) ==
    /\ Len(seg) < Len(s)
    /\ seg = SubSeq(s, 1, Len(seg))
    /\ s[Len(seg) + 1] = sep
    /\ \A i \in 1..Len(seg) : seg[i] # sep
IsYearSegmentOf(seg, s) ==
    IF \E i \in 1..Len(s) : s[i] = "-" THEN IsPrefixBefore(seg, s, "-")
    ELSE IF \E i \in 1..Len(s) : s[i] = "/" THEN IsPrefixBefore(seg, s, "/")
    ELSE /\ Len(seg) = (IF Len(s) < 4 THEN Len(s) ELSE 4)
         /\ seg = SubSeq(s, 1, Len(seg))

\* C4: calculate_generation never raises and returns a cohort or null; the
\* year is read from the segment before the first "-", else before the first
\* "/", else from the first 4 characters, and the result is null when that
\* segment is not an integer.
C4_NeverRaises ==
    fn = "calculate_generation" =>
        /\ ret.exc = "none"
        /\ ret.value \in { <<"0", "5", "U540E">>, <<"0", "0", "U540E">>, <<"9", "5", "U540E">>, <<"9", "0", "U540E">>, None }  \* "05后", "00后", "95后", "90后"
        /\ (isna(arg) \/ arg = <<>>) => ret.value = None
        /\ (~isna(arg) /\ arg # <<>>) =>
              \A n \in 0..Len(arg) :
                  LET seg == SubSeq(arg, 1, n)
                  IN  (IsYearSegmentOf(seg, arg) /\ int(seg).exc # "none")
                          => ret.value = None

\* a date with a "/" and a later "-" whose text before the "/" is a year of
\* a cohort was classified as null
C4_Witness ==
    /\ fn = "calculate_generation"
    /\ ~isna(arg)
    /\ \E i, j \in 1..Len(arg) :
          /\ i < j
          /\ arg[i] = "/"
          /\ arg[j] = "-"
          /\ SubSeq(arg, 1, i - 1) = <<"2", "0", "0", "0">>
    /\ ret = Returned(None)

\* C5: extract_province applies its rules in strict order: null or empty
\* gives "未知"; an alias-table key gives its province; else a text with "-"
\* gives the alias of the prefix before the first "-", or the raw prefix;
\* else the province of the first key in table order that occurs in the
\* text; else the text itself.
C5_ProvinceRuleOrder ==
    fn = "extract_province" =>
        /\ ret.exc = "none"
        /\ IF isna(arg) \/ arg = <<>> THEN ret.value = <<"U672A", "U77E5">>  \* "未知"
           ELSE IF \E k \in 1..Len(province_map) : province_map[k][1] = arg
           THEN \E k \in 1..Len(province_map) :
                    province_map[k][1] = arg /\ ret.value = province_map[k][2]
           ELSE IF \E i \in 1..Len(arg) : arg[i] = "-"
           THEN \E n \in 0..Len(arg) :
                    LET prefix == SubSeq(arg, 1, n)
                    IN  /\ IsPrefixBefore(prefix, arg, "-")
                        /\ \/ \E k \in 1..Len(province_map) :
                                 /\ province_map[k][1] = prefix
                                 /\ ret.value = province_map[k][2]
                           \/ /\ \A k \in 1..Len(province_map) :
                                     province_map[k][1] # prefix
                              /\ ret.value = prefix
           ELSE IF \E k \in 1..Len(province_map) : Contains(province_map[k][1], arg)
           THEN \E k \in 1..Len(province_map) :
                    /\ Contains(province_map[k][1], arg)
                    /\ \A j \in 1..(k - 1) : ~Contains(province_map[j][1], arg)
                    /\ ret.value = province_map[k][2]
           ELSE ret.value = arg

\* a text with a separator whose prefix is no key and whose rest names a
\* province was mapped to the raw prefix
C5_Witness ==
    /\ fn = "extract_province"
    /\ arg = <<"U706B", "U661F">> \o <<"-">> \o <<"U6E56", "U5357">>  \* "火星", "湖南"
    /\ ret.value = <<"U706B", "U661F">>  \* "火星"

\* the canonical province names of the alias table
CanonicalProvinces == MapValues(province_map) \ { <<"U5176", "U4ED6">> }  \* "其他"

\* names of cities and regions: 长沙 (in 湖南), 京山 (in 湖北), 海南州 (the
\* prefecture 海南藏族自治州 in 青海)
RegionNames == { <<"U957F", "U6C99">>, <<"U4EAC", "U5C71">>, <<"U6D77", "U5357", "U5DDE">> }  \* "长沙", "京山", "海南州"

\* C6: an origin text that starts with a canonical province name followed by
\* a city or region name, without a separator, is mapped to that leading
\* province, also when the rest of the text contains another alias-table key.
C6_LeadingProvince ==
    \A p \in CanonicalProvinces : \A region \in RegionNames :
        (fn = "extract_province" /\ arg = p \o region) => ret.value = p

-----------------------------------------------------------------------------
(* Properties of the enrichment and the aggregation, checked under         *)
(* SpecPipeline                                                            *)

Enriched == df_enhanced # NotRun /\ df_enhanced.exc = "none"

\* the closed set of origin provinces: the canonical names, "其他", "未知"
ProvinceClosedSet == CanonicalProvinces \cup { <<"U5176", "U4ED6">>, <<"U672A", "U77E5">> }  \* "其他", "未知"

\* C7 as stated: the derived origin province of every record produced by
\* enhance_data is a canonical province name, "其他" or "未知".
C7_ProvinceClosedSet ==
    Enriched =>
        \A i \in 1..len(df_enhanced.value) :
            df_enhanced.value.rows[i][COL_PROVINCE] \in ProvinceClosedSet

IsAliasKey(s) == \E k \in 1..Len(province_map) : province_map[k][1] = s
HasAliasKey(s) == \E k \in 1..Len(province_map) : Contains(province_map[k][1], s)
HasSeparator(s) == \E i \in 1..Len(s) : s[i] = "-"

\* C7 amended: the derived origin province of every record produced by
\* enhance_data is a canonical province name, "其他" or "未知", or raw text of
\* the origin that matches no alias: the part before the first "-" of an
\* origin with a separator, when that part is no alias key, else the whole
\* origin, when no alias key occurs in it.
C7_ProvinceOrRawText ==
    Enriched =>
        \A i \in 1..len(df_enhanced.value) :
            LET origin == df_enhanced.value.rows[i][COL_ORIGIN]
                province == df_enhanced.value.rows[i][COL_PROVINCE]
            IN  \/ province \in ProvinceClosedSet
                \/ /\ ~isna(origin)
                   /\ HasSeparator(origin)
                   /\ ~IsAliasKey(province)
                   /\ IsPrefixBefore(province, origin, "-")
                \/ /\ ~isna(origin)
                   /\ ~HasSeparator(origin)
                   /\ ~HasAliasKey(origin)
                   /\ province = origin

\* an enriched dataset holds a record with a canonical province, one whose
\* province is the raw origin and one whose origin is missing
C7_Witness ==
    /\ Enriched
    /\ \E i, j, k \in 1..len(df_enhanced.value) :
          /\ df_enhanced.value.rows[i][COL_PROVINCE] = <<"U6E56", "U5357">>  \* "湖南"
          /\ df_enhanced.value.rows[j][COL_PROVINCE] = <<"U706B", "U661F">>  \* "火星"
          /\ df_enhanced.value.rows[k][COL_ORIGIN] = NaN
          /\ df_enhanced.value.rows[k][COL_PROVINCE] = <<"U672A", "U77E5">>  \* "未知"

\* enhance_data was called on before and left it as after, returning outcome
FrameOfCall(before, after, outcome) ==
    /\ after = before
    /\ outcome.exc = "none"
    /\ len(outcome.value) = len(before)
    /\ SeqToSet(before.columns) \subseteq SeqToSet(outcome.value.columns)
    /\ \A i \in 1..len(before) : \A c \in SeqToSet(before.columns) :
          outcome.value.rows[i][c] = before.rows[i][c]

\* C8: enhance_data on a dataset of N records returns a new dataset of N
\* records in the same order whose source columns hold the values of the
\* input, and leaves the input dataset unchanged; a record whose derived
\* cohort is null is still in the output.
C8_EnhanceFrame ==
    [][ /\ (df_enhanced = NotRun /\ df_enhanced' # NotRun)
            => FrameOfCall(df, df', df_enhanced')
        /\ (df_again = NotRun /\ df_again' # NotRun)
            => FrameOfCall(df_enhanced.value, df_enhanced'.value, df_again')
      ]_vars

\* a dataset of 3 records was enriched, one of its records has a null cohort
C8_Witness ==
    /\ Enriched
    /\ len(df) = 3
    /\ len(df_enhanced.value) = 3
    /\ Len(df.columns) = 14
    /\ Len(df_enhanced.value.columns) = 18
    /\ \E i \in 1..3 : df_enhanced.value.rows[i][COL_GENERATION] = None
    /\ \E i \in 1..3 : df_enhanced.value.rows[i][COL_GENERATION] = <<"9", "5", "U540E">>  \* "95后"

DerivedColumns == {COL_IS_OVERSEAS, COL_TIER, COL_PROVINCE, COL_GENERATION}

\* C9: enhance_data applied to its own output does not raise and yields, for
\* every record, the same four derived values as the first application.
C9_EnhanceIdempotent ==
    df_again # NotRun =>
        /\ df_again.exc = "none"
        /\ len(df_again.value) = len(df_enhanced.value)
        /\ \A i \in 1..len(df_enhanced.value) : \A c \in DerivedColumns :
              df_again.value.rows[i][c] = df_enhanced.value.rows[i][c]
        /\ df_again.value = df_enhanced.value

\* a dataset with an overseas record and a record of the cohort "00后" was
\* enriched twice
C9_Witness ==
    /\ df_again # NotRun
    /\ \E i, j \in 1..len(df_again.value) :
          /\ df_again.value.rows[i][COL_GENERATION] = <<"0", "0", "U540E">>  \* "00后"
          /\ df_again.value.rows[i][COL_IS_OVERSEAS] = <<"U662F">>  \* "是"
          /\ df_again.value.rows[j][COL_TIER] = <<"9", "8", "5">>
          /\ df_again.value.rows[j][COL_GENERATION] = None

RECURSIVE SumCounts(_)
SumCounts(entries) ==
    IF entries = <<>> THEN 0
    ELSE entries[1].count + SumCounts(Tail(entries))

\* the number of records of the enriched dataset whose value in a column is null
NullCount(column_name) ==
    Cardinality({i \in 1..len(df_enhanced.value) :
                    isna(df_enhanced.value.rows[i][column_name])})

SevenDimensions ==
    << <<"political_status", COL_POLITICAL>>, <<"gender", COL_GENDER>>,
       <<"age_distribution", COL_GENERATION>>, <<"education", COL_EDUCATION>>,
       <<"institution_category", COL_TIER>>, <<"major_type", COL_MAJOR_TYPE>>,
       <<"province_distribution", COL_PROVINCE>> >>

\* C10: in each of the seven dimensions the counts of the distribution's
\* entries plus the number of records with a null value add up to
\* total_count, and null is never a category.
C10_CountsAddUp ==
    (stats # NotRun /\ stats.exc = "none") =>
        /\ stats.value.total_count = len(df_enhanced.value)
        /\ \A n \in 1..7 :
              LET entries == stats.value[SevenDimensions[n][1]]
              IN  /\ SumCounts(entries) + NullCount(SevenDimensions[n][2])
                        = stats.value.total_count
                  /\ \A e \in 1..Len(entries) : ~isna(entries[e].name)

\* statistics of 3 records, one with every cell empty and two of a cohort
C10_Witness ==
    /\ stats # NotRun
    /\ stats.exc = "none"
    /\ stats.value.total_count = 3
    /\ NullCount(COL_GENDER) = 1
    /\ NullCount(COL_GENERATION) = 1
    /\ SumCounts(stats.value.age_distribution) = 2
    /\ Len(stats.value.gender) = 2

-----------------------------------------------------------------------------
(* Roster runs: the pipeline applied to rosters of up to MaxRoster records  *)
(* that differ in every dimension, so that a distribution has as many       *)
(* entries as the roster has records                                        *)

\* the largest roster has this many records
MaxRoster == 6

\* graduates of six provinces, political statuses and institutions, and one
\* record whose gender, birth date and major type are empty
RosterRecords ==
    << Record(<<"U7537">>, <<"1", "9", "9", "8", "-", "0", "1", "-", "0", "1">>, <<"U4E2D", "U5171", "U515A", "U5458">>, <<"U6E56", "U5357", "U957F", "U6C99">>, <<"U5DF2", "U7B7E", "U7EA6", "(", "U4E24", "U65B9", ")">>,  \* "男", "中共党员", "湖南长沙", "已签约(两方)"
              <<"U672C", "U79D1">>, <<"U5DE5", "U79D1">>, <<"U6E05", "U534E", "U5927", "U5B66">>, <<"C", "9", "U8054", "U76DF">>),  \* "本科", "工科", "清华大学", "C9联盟"
       Record(<<"U5973">>, <<"1", "9", "9", "9", "-", "0", "5", "-", "0", "2">>, <<"U5171", "U9752", "U56E2", "U5458">>, <<"U5317", "U4EAC">>, <<"U5DF2", "U7B7E", "U7EA6", "(", "U4E24", "U65B9", ")">>,  \* "女", "共青团员", "北京", "已签约(两方)"
              <<"U7855", "U58EB", "U7814", "U7A76", "U751F">>, <<"U7406", "U79D1">>, <<"U5317", "U4EAC", "U5927", "U5B66">>, <<"C", "9", "U8054", "U76DF">>),  \* "硕士研究生", "理科", "北京大学", "C9联盟"
       Record(<<"U7537">>, <<"2", "0", "0", "0", "-", "0", "3", "-", "0", "3">>, <<"U7FA4", "U4F17">>, <<"U4E0A", "U6D77">>, <<"U5DF2", "U7B7E", "U7EA6", "(", "U4E09", "U65B9", ")">>,  \* "男", "群众", "上海", "已签约(三方)"
              <<"U672C", "U79D1">>, <<"U5DE5", "U79D1">>, <<"U540C", "U6D4E", "U5927", "U5B66">>, <<"9", "8", "5">>),  \* "本科", "工科", "同济大学"
       Record(<<"U5973">>, <<"2", "0", "0", "1", "-", "0", "1", "-", "0", "1">>, <<"U4E2D", "U5171", "U9884", "U5907", "U515A", "U5458">>, <<"U5E7F", "U4E1C">>, <<"U5DF2", "U7B7E", "U7EA6", "(", "U4E24", "U65B9", ")">>,  \* "女", "中共预备党员", "广东", "已签约(两方)"
              <<"U535A", "U58EB", "U7814", "U7A76", "U751F">>, <<"U7BA1", "U7406">>, <<"U4E2D", "U5357", "U5927", "U5B66">>, <<"2", "1", "1">>),  \* "博士研究生", "管理", "中南大学"
       Record(<<"U7537">>, <<"1", "9", "9", "3", "-", "0", "1", "-", "0", "1">>, <<"U6C11", "U4E3B", "U515A", "U6D3E">>, <<"U56DB", "U5DDD">>, <<"U5DF2", "U7B7E", "U7EA6", "(", "U4E24", "U65B9", ")">>,  \* "男", "民主党派", "四川", "已签约(两方)"
              <<"U672C", "U79D1">>, <<"U6587", "U79D1">>, <<"U897F", "U5357", "U4EA4", "U901A", "U5927", "U5B66">>, <<"U8F68", "U9053", "U4EA4", "U901A", "U5408", "U4F5C", "U9662", "U6821">>),  \* "本科", "文科", "西南交通大学", "轨道交通合作院校"
       Record(<<"U5973">>, <<"1", "9", "9", "7">>, <<"U65E0", "U515A", "U6D3E", "U4EBA", "U58EB">>, <<"U6E56", "U5317">>, <<"U5DF2", "U7B7E", "U7EA6", "(", "U4E09", "U65B9", ")">>,  \* "女", "无党派人士", "湖北", "已签约(三方)"
              <<"U5927", "U4E13">>, <<"U533B", "U5B66">>, <<"U6B66", "U6C49", "U5927", "U5B66">>, <<"U6D77", "U5916", "U9662", "U6821">>),  \* "大专", "医学", "武汉大学", "海外院校"
       Record(NaN, NaN, <<"U7FA4", "U4F17">>, <<"U6C5F", "U82CF">>, <<"U5DF2", "U7B7E", "U7EA6", "(", "U4E24", "U65B9", ")">>,  \* "群众", "江苏", "已签约(两方)"
              <<"U672C", "U79D1">>, NaN, <<"U4E1C", "U5357", "U5927", "U5B66">>, <<"9", "8", "5">>) >>  \* "本科", "东南大学"

\* the index sequences of at most n records, each index at least lo and none
\* below the one before it: a roster lists its records in the order above
RECURSIVE Picks(_, _)
Picks(n, lo) ==
    IF n = 0 THEN {<<>>}
    ELSE {<<>>} \cup UNION {{<<i>> \o q : q \in Picks(n - 1, i)} :
                              i \in lo..Len(RosterRecords)}

Rosters ==
    {[columns |-> REQUIRED_COLUMNS,
      rows |-> [i \in 1..Len(q) |-> RosterRecords[q[i]]]] :
        q \in Picks(MaxRoster, 1)}

InitRoster ==
    /\ df \in Rosters
    /\ df_enhanced = NotRun
    /\ df_again = NotRun
    /\ stats = NotRun
    /\ report = NotRun
    /\ ClassifierIdle
    /\ ServerIdle

SpecRoster == InitRoster /\ [][NextPipeline]_vars

-----------------------------------------------------------------------------
(* Properties of the aggregation, checked under SpecRoster and SpecPipeline *)

Aggregated == Enriched /\ stats # NotRun /\ stats.exc = "none"

\* the sum of the percentages of a distribution, in tenths of a percent
RECURSIVE SumPercentages(_)
SumPercentages(entries) ==
    IF entries = <<>> THEN 0
    ELSE entries[1].percentage + SumPercentages(Tail(entries))

\* the dimension has no record with a null value
FullyPopulated(n) == NullCount(SevenDimensions[n][2]) = 0

Abs(x) == IF x < 0 THEN 0 - x ELSE x

\* C11 as stated: for every dataset with total_count > 0 and every dimension
\* in which no record has a null value, the one-decimal percentages of the
\* distribution add up to a value in [99.9, 100.1], for any number of
\* distinct categories.
C11_SumWithinTolerance ==
    (Aggregated /\ stats.value.total_count > 0) =>
        \A n \in 1..7 :
            FullyPopulated(n) =>
                SumPercentages(stats.value[SevenDimensions[n][1]]) \in 999..1001

\* C11 amended: for every dataset with total_count > 0 and every dimension in
\* which no record has a null value, the one-decimal percentages of the
\* distribution add up to a value that differs from 100 by at most 0.05 per
\* entry; the sum lies in [99.9, 100.1] when the distribution has at most
\* three entries.
C11_SumWithinRoundingError ==
    (Aggregated /\ stats.value.total_count > 0) =>
        \A n \in 1..7 :
            FullyPopulated(n) =>
                LET entries == stats.value[SevenDimensions[n][1]]
                    sum == SumPercentages(entries)
                IN  /\ 2 * Abs(sum - 1000) <= Len(entries)
                    /\ Len(entries) <= 3 => sum \in 999..1001

\* six graduates of six provinces: six entries of 16.7 add up to 100.2
C11_Witness ==
    /\ Aggregated
    /\ stats.value.total_count = 6
    /\ FullyPopulated(7)
    /\ Len(stats.value.province_distribution) = 6
    /\ \A e \in 1..6 : stats.value.province_distribution[e].percentage = 167
    /\ SumPercentages(stats.value.province_distribution) = 1002

\* the values of a column of the enriched dataset that are not null
Categories(column_name) ==
    {v \in SeqToSet(Column(df_enhanced.value, column_name)) : ~isna(v)}

\* the number of records of the enriched dataset that hold v in a column
RecordsWith(column_name, v) ==
    Cardinality({i \in 1..len(df_enhanced.value) :
                    df_enhanced.value.rows[i][column_name] = v})

\* C12: every distribution lists each distinct non-null category exactly
\* once, with the number of its records as count (at least 1), and its
\* entries are in non-increasing order of count.
C12_DistributionOrder ==
    Aggregated =>
        \A n \in 1..7 :
            LET entries == stats.value[SevenDimensions[n][1]]
                column_name == SevenDimensions[n][2]
            IN  /\ {entries[e].name : e \in 1..Len(entries)} = Categories(column_name)
                /\ Len(entries) = Cardinality(Categories(column_name))
                /\ \A e \in 1..Len(entries) :
                      /\ entries[e].count >= 1
                      /\ entries[e].count = RecordsWith(column_name, entries[e].name)
                /\ \A e \in 1..(Len(entries) - 1) :
                      entries[e].count >= entries[e + 1].count

\* the first record is a man, the two after it are women: the gender
\* distribution lists the women first
C12_Witness ==
    /\ Aggregated
    /\ stats.value.total_count = 3
    /\ df_enhanced.value.rows[1][COL_GENDER] = <<"U7537">>  \* "男"
    /\ Len(stats.value.gender) = 2
    /\ stats.value.gender[1].name = <<"U5973">>  \* "女"
    /\ stats.value.gender[1].count = 2
    /\ stats.value.gender[2].count = 1

\* the hire-agreement fields of the enriched dataset, in record order
Agreements == Column(df_enhanced.value, COL_STATUS)

\* the number of records whose hire-agreement field is text that contains marker
WithMarker(marker) ==
    Cardinality({i \in 1..Len(Agreements) :
                    Agreements[i] # NaN /\ Agreements[i] # None
                        /\ Contains(marker, Agreements[i])})

C14_EmptyDataset ==
    (Enriched /\ Len(df_enhanced.value.rows) = 0 /\ stats # NotRun) =>
        /\ stats.exc = "none"
        /\ stats.value.total_count = 0
        /\ stats.value.bilateral_count = 0
        /\ stats.value.trilateral_count = 0
        /\ \A n \in 1..7 : stats.value[SevenDimensions[n][1]] = <<>>
        /\ \A school \in DOMAIN stats.value.special_institutions :
              stats.value.special_institutions[school] = 0

\* the statistics of a dataset without records were computed
C14_Witness ==
    /\ Enriched
    /\ df_enhanced.value.rows = <<>>
    /\ Len(df_enhanced.value.columns) = 18
    /\ stats # NotRun
    /\ stats.exc = "none"
    /\ Cardinality(DOMAIN stats.value.special_institutions) = 10

\* the nine flagship institutions, as the specification enumerates them
NineFlagships ==
    { <<"U6E05", "U534E", "U5927", "U5B66">>, <<"U5317", "U4EAC", "U5927", "U5B66">>, <<"U540C", "U6D4E", "U5927", "U5B66">>, <<"U4E2D", "U5357", "U5927", "U5B66">>, <<"U5317", "U4EAC", "U4EA4", "U901A", "U5927", "U5B66">>,  \* "清华大学", "北京大学", "同济大学", "中南大学", "北京交通大学"
      <<"U897F", "U5357", "U4EA4", "U901A", "U5927", "U5B66">>, <<"U5170", "U5DDE", "U4EA4", "U901A", "U5927", "U5B66">>, <<"U5927", "U8FDE", "U4EA4", "U901A", "U5927", "U5B66">>, <<"U534E", "U4E1C", "U4EA4", "U901A", "U5927", "U5B66">> }  \* "西南交通大学", "兰州交通大学", "大连交通大学", "华东交通大学"

\* C15: for each of the nine flagship institutions the tally is the number
\* of records whose institution name equals it exactly, and the "C9联盟"
\* entry is the number of records whose derived tier is "C9联盟" minus the
\* tally of 清华大学 minus the tally of 北京大学.
C15_SpecialTally ==
    Aggregated =>
        LET tally == stats.value.special_institutions
        IN  /\ DOMAIN tally = NineFlagships \cup { <<"C", "9", "U8054", "U76DF">> }  \* "C9联盟"
            /\ \A school \in NineFlagships :
                  tally[school] = RecordsWith(COL_INSTITUTION, school)
            /\ tally[<<"C", "9", "U8054", "U76DF">>] =  \* "C9联盟"
                  RecordsWith(COL_TIER, <<"C", "9", "U8054", "U76DF">>)  \* "C9联盟"
                      - tally[<<"U6E05", "U534E", "U5927", "U5B66">>] - tally[<<"U5317", "U4EAC", "U5927", "U5B66">>]  \* "清华大学", "北京大学"

\* a graduate of 北京大学 whose tier is an overseas one, and no record of the
\* tier "C9联盟": the alliance entry is -1
C15_Witness ==
    /\ Aggregated
    /\ stats.value.special_institutions[<<"U5317", "U4EAC", "U5927", "U5B66">>] = 1  \* "北京大学"
    /\ RecordsWith(COL_TIER, <<"C", "9", "U8054", "U76DF">>) = 0  \* "C9联盟"
    /\ stats.value.special_institutions[<<"C", "9", "U8054", "U76DF">>] = 0 - 1  \* "C9联盟"

-----------------------------------------------------------------------------
(* Properties of the narrative report, checked under SpecRoster *)

\* the number of entries the sentence of each dimension has slots for
TemplateSlots ==
    [political_status |-> 3, gender |-> 2, age_distribution |-> 3,
     education |-> 3, institution_category |-> 3, major_type |-> 3,
     province_distribution |-> 3]

\* a dimension of the snapshot has fewer entries than its sentence has slots
FewerThanSlots ==
    \E key \in DOMAIN TemplateSlots : Len(stats.value[key]) < TemplateSlots[key]

\* C20: generate_markdown_report never faults on a cardinality mismatch: for
\* every statistics snapshot in which a dimension has fewer entries than the
\* narrative template has slots (0, 1 or 2 entries), it returns a document
\* instead of raising an out-of-range error.
C20_NoCardinalityFault ==
    (Aggregated /\ report # NotRun /\ FewerThanSlots) => report.exc = "none"

-----------------------------------------------------------------------------
(* The server: FileManager (src/utils/file_manager.py), DataManager and the *)
(* handlers of the /api router (src/api/routes.py).  A handler is           *)
(* `async def` and runs on one event loop; it is one step up to its first   *)
(* await that can suspend it.  The upload, statistics and clear handlers    *)
(* never suspend; a report handler suspends once, at `await request.json()`.*)

\* AppConfig.MAX_HISTORY_RECORDS: the environment variable of that name,
\* 10 when it is not set
MAX_HISTORY_RECORDS == 1

\* the clock stops at this second
MaxClock == 1

\* datetime.now().strftime(...): the text of a second; two seconds give the
\* same text exactly when they are the same second, and texts compare as
\* their seconds do
strftime(t) == <<t>>

\* the bytes of a file pd.read_excel cannot read
NOT_A_WORKBOOK == [workbook |-> FALSE]

\* the workbooks users upload: a roster of one record, a roster of five, a
\* sheet without the columns "姓名" and "性别", a sheet with the header row only
ROSTER_A == [columns |-> REQUIRED_COLUMNS, rows |-> SubSeq(RosterRecords, 3, 3)]
ROSTER_B == [columns |-> REQUIRED_COLUMNS, rows |-> SubSeq(RosterRecords, 1, 5)]
TWO_COLUMNS_SHORT ==
    LET kept == SelectSeq(REQUIRED_COLUMNS, LAMBDA c : c \notin {COL_NAME, COL_GENDER})
    IN  [columns |-> kept,
         rows |-> << [c \in SeqToSet(kept) |-> RosterRecords[1][c]] >>]
HEADER_ONLY == [columns |-> REQUIRED_COLUMNS, rows |-> <<>>]

\* the bytes of the files users upload, each named by what it holds
FileBodies ==
    {"not a workbook", "roster A", "roster B", "two columns short", "header only"}

\* what pd.read_excel makes of the bytes
Sheet(body) ==
    CASE body = "roster A" -> ROSTER_A
      [] body = "roster B" -> ROSTER_B
      [] body = "two columns short" -> TWO_COLUMNS_SHORT
      [] body = "header only" -> HEADER_ONLY
      [] body = "not a workbook" -> NOT_A_WORKBOOK

\* file_path.stat().st_size
FileSize(body) ==
    CASE body = "roster A" -> 5120
      [] body = "roster B" -> 6144
      [] body = "two columns short" -> 5120
      [] body = "header only" -> 5120
      [] body = "not a workbook" -> 9

\* A DataFrame object held by the server is named by the bytes it was read
\* from: DataFrameOf gives the frame, which is the enriched sheet.
EnhancedFrame(body) == [enhanced |-> body]
EnhancedSheets ==
    [body \in FileBodies \ {"not a workbook"} |-> enhance_data(Sheet(body))]
DataFrameOf(data) == EnhancedSheets[data.enhanced]

\* DataProcessor.generate_statistics on each of these frames
StatisticsRuns ==
    [body \in DOMAIN EnhancedSheets |-> generate_statistics_run(EnhancedSheets[body])]

\* UploadFile: the name the client gives and the bytes
UploadFiles == {[filename |-> "roster.xlsx", file |-> body] : body \in FileBodies}

\* "春招", "秋招"
Descriptions == { <<"U6625", "U62DB">>, <<"U79CB", "U62DB">> }  \* "春招", "秋招"

\* pd.read_excel(file_path)
read_excel(body) ==
    IF Sheet(body) = NOT_A_WORKBOOK THEN Raised("ValueError")
    ELSE Returned(Sheet(body))

\* f"{timestamp}_{file.filename}": the second and the client's name
StoredName(t, filename) == <<t, filename>>

\* uploads/.gitkeep
GITKEEP == <<0 - 1, ".gitkeep">>

\* open(path, "wb") and copy: the file is created or overwritten
WriteFile(dir, name, body) ==
    [n \in DOMAIN dir \cup {name} |-> IF n = name THEN body ELSE dir[n]]

\* if path.exists(): path.unlink(), for every path of names
Unlink(dir, names) == [n \in DOMAIN dir \ names |-> dir[n]]

\* sorted(history, key=lambda x: x["upload_time"], reverse=True): newest
\* first, records of one second in the order they have in the file
SortedNewestFirst(records) ==
    LET n == Len(records)
        before(j, k) ==
            \/ records[j].upload_time[1] > records[k].upload_time[1]
            \/ records[j].upload_time = records[k].upload_time /\ j < k
        rank(k) == Cardinality({j \in 1..n : before(j, k)}) + 1
    IN  [r \in 1..n |-> records[CHOOSE k \in 1..n : rank(k) = r]]

\* FileManager.get_upload_history
get_upload_history(hf) ==
    IF ~hf.exists THEN <<>> ELSE SortedNewestFirst(hf.records)

\* FileManager._add_to_history: the directory and the history file after it
_add_to_history(dir, hf, record) ==
    LET history == Append(get_upload_history(hf), record)
        over == Len(history) > MAX_HISTORY_RECORDS
        oldest_records ==
            IF over THEN SubSeq(history, MAX_HISTORY_RECORDS + 1, Len(history))
            ELSE <<>>
        kept == IF over THEN SubSeq(history, 1, MAX_HISTORY_RECORDS) ELSE history
    IN  [uploads_dir |->
            Unlink(dir, {oldest_records[i].filename : i \in 1..Len(oldest_records)}),
         history_file |-> [exists |-> TRUE, records |-> kept]]

\* save_uploaded_file with the history written before the file is parsed
save_uploaded_file_records_first(dir, hf, file, description, t1, t2) ==
    LET filename == StoredName(t1, file.filename)
        written == WriteFile(dir, filename, file.file)
        read == read_excel(written[filename])
        upload_record ==
            [filename |-> filename,
             description |-> description,
             upload_time |-> strftime(t2),
             file_size |-> FileSize(written[filename]),
             original_name |-> file.filename]
        added == _add_to_history(written, hf, upload_record)
    IN  IF read.exc # "none"
        THEN [uploads_dir |-> Unlink(added.uploads_dir, {filename}),
              history_file |-> added.history_file,
              outcome |-> Raised("Exception")]
        ELSE [uploads_dir |-> added.uploads_dir,
              history_file |-> added.history_file,
              outcome |-> Returned(<<filename, read.value>>)]

\* FileManager.save_uploaded_file: the directory and the history file after
\* it and its outcome; t1 and t2 are the seconds of its two clock readings
save_uploaded_file(dir, hf, file, description, t1, t2) ==
    LET filename == StoredName(t1, file.filename)
        written == WriteFile(dir, filename, file.file)
        read == read_excel(written[filename])
        upload_record ==
            [filename |-> filename,
             description |-> description,
             upload_time |-> strftime(t2),
             file_size |-> FileSize(written[filename]),
             original_name |-> file.filename]
        added == _add_to_history(written, hf, upload_record)
    IN  IF read.exc # "none"
        THEN [uploads_dir |-> Unlink(written, {filename}),
              history_file |-> hf,
              outcome |-> Raised("Exception")]
        ELSE [uploads_dir |-> added.uploads_dir,
              history_file |-> added.history_file,
              outcome |-> Returned(<<filename, read.value>>)]

\* update_data without its assignment to current_description
update_data_keeps_description(data, description, upload_time) ==
    [current_data |-> data,
     current_description |-> current_description,
     current_upload_time |-> upload_time]

\* update_data without its assignment to current_upload_time
update_data_keeps_upload_time(data, description, upload_time) ==
    [current_data |-> data,
     current_description |-> description,
     current_upload_time |-> current_upload_time]

\* DataManager.update_data: the three fields after it
update_data(data, description, upload_time) ==
    [current_data |-> data,
     current_description |-> description,
     current_upload_time |-> upload_time]

\* clear_upload_history without its test for ".gitkeep"
clear_upload_history_every_file(dir) == Unlink(dir, DOMAIN dir)

\* FileManager.clear_upload_history: the directory after it
clear_upload_history(dir) == Unlink(dir, DOMAIN dir \ {GITKEEP})

\* validate_excel_format without its `if df.empty` check
validate_excel_format_columns_only(d) ==
    LET missing_columns ==
            SelectSeq(REQUIRED_COLUMNS, LAMBDA col : col \notin SeqToSet(d.columns))
    IN  IF missing_columns # <<>>
        THEN << [error |-> "missing columns", columns |-> missing_columns] >>
        ELSE <<>>

\* DataProcessor.validate_excel_format: the list of error messages
validate_excel_format(d) ==
    LET missing_columns ==
            SelectSeq(REQUIRED_COLUMNS, LAMBDA col : col \notin SeqToSet(d.columns))
        empty == Len(d.rows) = 0 \/ Len(d.columns) = 0
    IN  (IF missing_columns # <<>>
         THEN << [error |-> "missing columns", columns |-> missing_columns] >>
         ELSE <<>>)
        \o (IF empty THEN << [error |-> "no data", columns |-> <<>>] >> ELSE <<>>)

\* DataManager.has_data
has_data(data) == data # NoData

\* an HTTP request, an HTTP response and the body of an HTTPException
Request(endpoint) == [endpoint |-> endpoint]
Response(status, body) == [status |-> status, body |-> body]
Detail(detail) == [detail |-> detail]

\* get_statistics that answers a missing dataset as the report handlers do
get_statistics_bad_request(data, description, upload_time) ==
    IF ~has_data(data) THEN Response(400, Detail("no data"))
    ELSE LET made == StatisticsRuns[data.enhanced]
         IN  IF made.exc # "none" THEN Response(500, Detail(made.exc))
             ELSE Response(200, [upload_time |-> upload_time,
                                 description |-> description] @@ made.value)

\* DataManager.get_statistics: the StatisticsResponse, or the HTTPException
get_statistics(data, description, upload_time) ==
    IF ~has_data(data) THEN Response(404, Detail("no data"))
    ELSE LET made == StatisticsRuns[data.enhanced]
         IN  IF made.exc # "none" THEN Response(500, Detail(made.exc))
             ELSE Response(200, [upload_time |-> upload_time,
                                 description |-> description] @@ made.value)

\* the seconds a clock reading can show after a reading of t
Later(t) == {s \in {t, t + 1} : s <= MaxClock}

\* POST /api/upload
UploadFile ==
    \E file \in UploadFiles, description \in Descriptions :
    \E t2 \in Later(now) : \E t3 \in Later(t2) :
        LET saved == save_uploaded_file(uploads_dir, history_file, file,
                                        description, now, t2)
            filename == saved.outcome.value[1]
            sheet == saved.outcome.value[2]
            errors == validate_excel_format(sheet)
            df_enhanced_ == DataFrameOf(EnhancedFrame(file.file))
            updated == update_data(EnhancedFrame(file.file), description, strftime(t3))
        IN  /\ request' = [endpoint |-> "POST /api/upload", file |-> file,
                            description |-> description]
            /\ history_file' = saved.history_file
            /\ now' = t3
            /\ IF saved.outcome.exc # "none"
               THEN /\ uploads_dir' = saved.uploads_dir
                    /\ response' = Response(500, Detail("Exception"))
                    /\ UNCHANGED <<current_data, current_description,
                                   current_upload_time>>
               ELSE IF errors # <<>>
               THEN /\ uploads_dir' = Unlink(saved.uploads_dir, {filename})
                    /\ response' = Response(400, Detail(errors))
                    /\ UNCHANGED <<current_data, current_description,
                                   current_upload_time>>
               ELSE /\ uploads_dir' = saved.uploads_dir
                    /\ current_data' = updated.current_data
                    /\ current_description' = updated.current_description
                    /\ current_upload_time' = updated.current_upload_time
                    /\ response' =
                          Response(200, [filename |-> filename,
                                         record_count |-> len(df_enhanced_),
                                         upload_time |-> strftime(t3)])
            /\ UNCHANGED <<reports_dir, awaiting, classifier_vars, pipeline_vars>>

\* GET /api/statistics
GetStatistics ==
    /\ request' = Request("GET /api/statistics")
    /\ response' = get_statistics(current_data, current_description,
                                  current_upload_time)
    /\ UNCHANGED <<uploads_dir, history_file, current_data, current_description,
                   current_upload_time, reports_dir, now, awaiting,
                   classifier_vars, pipeline_vars>>

\* DELETE /api/clear-history
ClearUploadHistory ==
    /\ history_file' = [exists |-> FALSE, records |-> <<>>]
    /\ uploads_dir' = clear_upload_history(uploads_dir)
    /\ request' = Request("DELETE /api/clear-history")
    /\ response' = Response(200, [message |-> "cleared"])
    /\ UNCHANGED <<current_data, current_description, current_upload_time,
                   reports_dir, now, awaiting, classifier_vars, pipeline_vars>>

\* POST /api/generate-report, /api/generate-html-report and
\* /api/generate-pdf-report, up to `await request.json()`
ReportKinds == {"markdown", "html", "pdf"}

ReportEndpoint(kind) ==
    CASE kind = "markdown" -> "POST /api/generate-report"
      [] kind = "html" -> "POST /api/generate-html-report"
      [] kind = "pdf" -> "POST /api/generate-pdf-report"

GenerateReportBegin ==
    /\ awaiting = "none"
    /\ \E kind \in ReportKinds :
          /\ request' = Request(ReportEndpoint(kind))
          /\ IF ~has_data(current_data)
             THEN /\ response' = Response(400, Detail("no data"))
                  /\ UNCHANGED awaiting
             ELSE /\ awaiting' = kind
                  /\ response' = NoResponse
    /\ UNCHANGED <<uploads_dir, history_file, current_data, current_description,
                   current_upload_time, reports_dir, now,
                   classifier_vars, pipeline_vars>>

\* "校园招聘分析报告_{timestamp}.html"
ReportName(t) == <<t, "html">>

\* save_html_report: the reports directory after it
save_html_report(dir, t) == dir \cup {ReportName(t)}

\* the rest of a report handler, from the statistics it reads: the reports
\* directory after it and its response.  The Markdown handler subscripts the
\* StatisticsResponse object and the PDF handler calls a method
\* ReportGenerator lacks: both end in the 500 of `except Exception`.
generate_report(kind, read, chart_images, dir, t) ==
    IF read.status # 200
    THEN [reports_dir |-> dir, response |-> read]
    ELSE IF kind = "markdown"
    THEN [reports_dir |-> dir, response |-> Response(500, Detail("TypeError"))]
    ELSE IF kind = "pdf"
    THEN [reports_dir |-> dir, response |-> Response(500, Detail("AttributeError"))]
    ELSE LET written == generate_markdown_report_run(read.body, chart_images)
         IN  IF written.exc # "none"
             THEN [reports_dir |-> dir, response |-> Response(500, Detail(written.exc))]
             ELSE [reports_dir |-> save_html_report(dir, t),
                   response |-> Response(200, [filename |-> ReportName(t)])]

\* a report handler after `await request.json()`
GenerateReportEnd ==
    /\ awaiting # "none"
    /\ awaiting' = "none"
    /\ request' = Request(ReportEndpoint(awaiting))
    /\ \E chart_images \in ChartImages :
       \E read \in {get_statistics(current_data, current_description,
                                   current_upload_time)} :
       \E served \in {generate_report(awaiting, read, chart_images, reports_dir, now)} :
          /\ reports_dir' = served.reports_dir
          /\ response' = served.response
    /\ UNCHANGED <<uploads_dir, history_file, current_data, current_description,
                   current_upload_time, now, classifier_vars, pipeline_vars>>

\* a second passes
Tick ==
    /\ now < MaxClock
    /\ now' = now + 1
    /\ request' = NoRequest
    /\ response' = NoResponse
    /\ UNCHANGED <<uploads_dir, history_file, current_data, current_description,
                   current_upload_time, reports_dir, awaiting,
                   classifier_vars, pipeline_vars>>

\* FileManager.get_latest_file: the stored name and the bytes of the file of
\* the first record of the history, if pd.read_excel can read it
NoFile == [found |-> FALSE]

get_latest_file(dir, hf) ==
    LET history == get_upload_history(hf)
        latest_record == history[1]
    IN  IF history = <<>> THEN NoFile
        ELSE IF latest_record.filename \notin DOMAIN dir THEN NoFile
        ELSE IF read_excel(dir[latest_record.filename]).exc # "none" THEN NoFile
        ELSE [found |-> TRUE,
              filename |-> latest_record.filename,
              file |-> dir[latest_record.filename]]

\* a DataManager as DataManager.__init__ leaves it
NewDataManager ==
    [current_data |-> NoData, current_description |-> <<>>, current_upload_time |-> <<>>]

\* the auto-load of lifespan: the three DataManager fields of the new process.
\* The sheet is enriched without validation; an exception is logged and
\* nothing is loaded.  The record that matches is the first of the history
\* with the file's name.
lifespan(dir, hf) ==
    LET latest_result == get_latest_file(dir, hf)
        upload_records == get_upload_history(hf)
        matching_record ==
            upload_records[CHOOSE i \in 1..Len(upload_records) :
                /\ upload_records[i].filename = latest_result.filename
                /\ \A j \in 1..(i - 1) :
                      upload_records[j].filename # latest_result.filename]
    IN  IF ~latest_result.found THEN NewDataManager
        ELSE IF enhance_data_call(Sheet(latest_result.file)).outcome.exc # "none"
        THEN NewDataManager
        ELSE update_data(EnhancedFrame(latest_result.file),
                         matching_record.description,
                         matching_record.upload_time)

\* the process stops and starts again: requests in flight are lost, the
\* files stay, lifespan runs
Restart ==
    /\ \E started \in {lifespan(uploads_dir, history_file)} :
          /\ current_data' = started.current_data
          /\ current_description' = started.current_description
          /\ current_upload_time' = started.current_upload_time
    /\ awaiting' = "none"
    /\ request' = Request("startup")
    /\ response' = NoResponse
    /\ UNCHANGED <<uploads_dir, history_file, reports_dir, now,
                   classifier_vars, pipeline_vars>>

\* the process has started on an empty uploads directory
InitServer ==
    /\ uploads_dir = [n \in {GITKEEP} |-> "empty"]
    /\ history_file = [exists |-> FALSE, records |-> <<>>]
    /\ current_data = NoData
    /\ current_description = <<>>
    /\ current_upload_time = <<>>
    /\ reports_dir = {}
    /\ now = 0
    /\ awaiting = "none"
    /\ request = NoRequest
    /\ response = NoResponse
    /\ ClassifierIdle
    /\ PipelineIdle

\* uploads, reads, clears and restarts over the seconds of the clock
NextServer ==
    \/ UploadFile
    \/ GetStatistics
    \/ ClearUploadHistory
    \/ Restart
    \/ Tick

SpecServer == InitServer /\ [][NextServer]_vars

\* the process has started on an empty uploads directory and the clock shows
\* its last second: no reading of the clock differs from another
InitReports ==
    /\ uploads_dir = [n \in {GITKEEP} |-> "empty"]
    /\ history_file = [exists |-> FALSE, records |-> <<>>]
    /\ current_data = NoData
    /\ current_description = <<>>
    /\ current_upload_time = <<>>
    /\ reports_dir = {}
    /\ now = MaxClock
    /\ awaiting = "none"
    /\ request = NoRequest
    /\ response = NoResponse
    /\ ClassifierIdle
    /\ PipelineIdle

\* uploads and reads that arrive while a report request is suspended
NextReports ==
    \/ UploadFile
    \/ GetStatistics
    \/ GenerateReportBegin
    \/ GenerateReportEnd

SpecReports == InitReports /\ [][NextReports]_vars

-----------------------------------------------------------------------------
(* Claims about the upload handler *)

\* the request received last is an upload
IsUpload(r) == r.endpoint = "POST /api/upload"

\* the three fields of the DataManager
DataManagerFields == <<current_data, current_description, current_upload_time>>

\* a sheet without one of its columns
DropColumn(d, c) ==
    LET kept == SelectSeq(d.columns, LAMBDA x : x # c)
    IN  [columns |-> kept,
         rows |-> [i \in 1..Len(d.rows) |-> [x \in SeqToSet(kept) |-> d.rows[i][x]]]]

\* the sheets of the uploaded workbooks, and each without one required column
ValidatedSheets ==
    LET whole == {Sheet(body) : body \in DOMAIN EnhancedSheets}
    IN  whole \cup {DropColumn(d, REQUIRED_COLUMNS[i]) :
                        d \in whole, i \in 1..Len(REQUIRED_COLUMNS)}

\* a required column is missing or the table has no records
MustBeRejected(d) ==
    \/ \E i \in 1..Len(REQUIRED_COLUMNS) : REQUIRED_COLUMNS[i] \notin SeqToSet(d.columns)
    \/ Len(d.rows) = 0

\* validate_excel_format reports an error exactly for these
ErrorsExactlyWhenRejected ==
    \A d \in ValidatedSheets : (validate_excel_format(d) # <<>>) <=> MustBeRejected(d)

\* C16: validate_excel_format reports an error exactly when a required column
\* is missing or the table has no records; an upload of such a workbook is
\* answered 400, leaves the three DataManager fields as they were (the
\* handler returns before enhance_data and update_data) and leaves no file
\* under its stored name in the uploads directory.
C16_FailsClosed ==
    [][ /\ ErrorsExactlyWhenRejected
        /\ (/\ IsUpload(request')
            /\ request'.file.file \in DOMAIN EnhancedSheets
            /\ MustBeRejected(Sheet(request'.file.file)))
           => /\ response'.status = 400
              /\ DataManagerFields' = DataManagerFields
              /\ StoredName(now, request'.file.filename) \notin DOMAIN uploads_dir'
      ]_vars

\* a workbook with the header row only was rejected while a dataset was loaded
C16_Witness ==
    /\ IsUpload(request)
    /\ request.file.file = "header only"
    /\ response.status = 400
    /\ has_data(current_data)

\* the request received last is a read of the statistics
IsStatistics(r) == r.endpoint = "GET /api/statistics"

\* C17: in every interleaving of uploads, statistics reads and report
\* requests (one of them suspended at its await or not), the three DataManager
\* fields change only together and all to the values of one upload, its
\* dataset, its description and its upload time, and a read through
\* get_statistics answers with the three as they stand in one state: the
\* record count of the current dataset, the current description and the
\* current upload time.
C17_ReadsSeeOneUpload ==
    [][ /\ DataManagerFields' # DataManagerFields
           => /\ IsUpload(request')
              /\ response'.status = 200
              /\ current_data' = EnhancedFrame(request'.file.file)
              /\ current_description' = request'.description
              /\ current_upload_time' = response'.body.upload_time
              /\ len(DataFrameOf(current_data')) = response'.body.record_count
        /\ (IsStatistics(request') /\ response'.status = 200)
           => /\ response'.body.total_count = len(DataFrameOf(current_data))
              /\ response'.body.description = current_description
              /\ response'.body.upload_time = current_upload_time
      ]_vars

\* an upload has replaced the dataset of another upload, which had another
\* description, while an HTML report request was suspended at its await
C17_Witness ==
    /\ awaiting = "html"
    /\ IsUpload(request)
    /\ response.status = 200
    /\ Len(history_file.records) >= 1
    /\ history_file.records[1].description # current_description

\* the step is the start of a new process
IsStartup(r) == r.endpoint = "startup"

\* the uploaded file is a workbook that passes validation
PassesValidation(file) ==
    /\ file.file \in DOMAIN EnhancedSheets
    /\ ~MustBeRejected(Sheet(file.file))

Lesser(a, b) == IF a < b THEN a ELSE b

\* the records of a history, as a set
RecordsOf(history) == {history[i] : i \in 1..Len(history)}

\* save_uploaded_file has returned in the upload served last
Saved == IsUpload(request) /\ response.status \in {200, 400}

\* C19: after a file save the history holds the submission just saved and,
\* of the records it held before, the most recent ones, up to
\* MAX_HISTORY_RECORDS in all; what is dropped is the oldest.
C19_HistoryKeepsNewest ==
    [][ Saved'
        => LET before == get_upload_history(history_file)
               after == get_upload_history(history_file')
               kept == SubSeq(before, 1, Lesser(Len(before), MAX_HISTORY_RECORDS - 1))
           IN  /\ Len(after) = Lesser(Len(before) + 1, MAX_HISTORY_RECORDS)
               /\ \E r \in RecordsOf(after) :
                     /\ r.filename = StoredName(now, request'.file.filename)
                     /\ r.description = request'.description
               /\ RecordsOf(kept) \subseteq RecordsOf(after)
      ]_vars

-----------------------------------------------------------------------------
(* Claims about restarts, stored files and the history *)

\* C21: when the process restarts right after it has accepted an upload, the
\* auto-load leaves a dataset loaded, and it is that upload's dataset with
\* that upload's description.
C21_RestartKeepsLatest ==
    [][ (IsStartup(request') /\ IsUpload(request) /\ response.status = 200)
        => /\ has_data(current_data')
           /\ current_data' = current_data
           /\ current_description' = current_description
      ]_vars

\* C22: an upload whose file pd.read_excel cannot parse makes
\* save_uploaded_file raise (the handler answers 500), leaves no file under
\* its stored name in the uploads directory, and leaves the history file and
\* the three DataManager fields as they were.
C22_FailedSaveLeavesNoTrace ==
    [][ (IsUpload(request') /\ request'.file.file \notin DOMAIN EnhancedSheets)
        => /\ response' = Response(500, Detail("Exception"))
           /\ StoredName(now, request'.file.filename) \notin DOMAIN uploads_dir'
           /\ history_file' = history_file
           /\ DataManagerFields' = DataManagerFields
      ]_vars

\* an unreadable file was uploaded while a dataset was loaded and the history
\* held a record
C22_Witness ==
    /\ IsUpload(request)
    /\ request.file.file = "not a workbook"
    /\ response.status = 500
    /\ has_data(current_data)
    /\ Len(history_file.records) >= 1

\* C23: a file save stores the upload under a name no record of the history
\* bears and no file of the uploads directory has: it overwrites no stored
\* file of another upload.
C23_StoredNamesUnique ==
    [][ Saved'
        => /\ \A i \in 1..Len(history_file.records) :
                 history_file.records[i].filename
                    # StoredName(now, request'.file.filename)
           /\ StoredName(now, request'.file.filename) \notin DOMAIN uploads_dir
      ]_vars

-----------------------------------------------------------------------------
(* AuthMiddleware (src/core/auth_middleware.py): one request through        *)
(* dispatch.  arg holds the request and the password file, ret the answer.  *)

\* str.strip(): blanks, tabs and line ends off both ends
RECURSIVE strip(_)
strip(s) ==
    LET whitespace == {" ", "\t", "\n", "\r"}
    IN  IF s = <<>> THEN s
        ELSE IF Head(s) \in whitespace THEN strip(Tail(s))
        ELSE IF s[Len(s)] \in whitespace THEN strip(SubSeq(s, 1, Len(s) - 1))
        ELSE s

\* "Zhuji123！"
DEFAULT_PASSWORD == <<"Z", "h", "u", "j", "i", "1", "2", "3", "UFF01">>  \* "Zhuji123！"

\* "authenticated"
AUTHENTICATED == <<"a", "u", "t", "h", "e", "n", "t", "i", "c", "a", "t", "e", "d">>

\* config/password.txt: absent, unreadable, or its text
PasswordFiles ==
    {[exists |-> FALSE, readable |-> FALSE, text |-> <<>>],
     [exists |-> TRUE, readable |-> FALSE, text |-> <<>>]} \cup
    {[exists |-> TRUE, readable |-> TRUE, text |-> t] :
        t \in { <<"s", "3", "c", "r", "e", "t">>, <<" ", "s", "3", "c", "r", "e", "t">> \o <<"\n">>, <<>> }}

\* AuthMiddleware._load_password
_load_password(password_file) ==
    IF ~password_file.exists THEN DEFAULT_PASSWORD
    ELSE IF password_file.readable THEN strip(password_file.text)
    ELSE DEFAULT_PASSWORD

\* the body of a request as request.form() sees it: a form with or without
\* the field "password", or a body the form parser raises on
Unparsable == [parses |-> FALSE, fields |-> [k \in {} |-> <<>>]]
Forms ==
    {Unparsable, [parses |-> TRUE, fields |-> [k \in {} |-> <<>>]]} \cup
    {[parses |-> TRUE, fields |-> [k \in {"password"} |-> p]] :
        p \in { <<"s", "3", "c", "r", "e", "t">>, <<"s", "3", "c", "r", "e", "t", " ">>, <<"Z", "h", "u", "j", "i", "1", "2", "3", "UFF01">>, <<"Z", "h", "u", "j", "i", "1", "2", "3", "!">>, <<>> }}  \* "Zhuji123！"

\* form_data.get("password", "")
FormGet(form) ==
    IF "password" \in DOMAIN form.fields THEN form.fields["password"] ELSE <<>>

\* the requests: path, method, the cookie auth_token (None: not sent), body
Paths ==
    { <<"/">>, <<"/", "a", "p", "i", "/", "s", "t", "a", "t", "i", "s", "t", "i", "c", "s">>, <<"/", "a", "p", "i", "/", "u", "p", "l", "o", "a", "d">>, <<"/", "s", "t", "a", "t", "i", "c", "/", "a", "p", "p", ".", "j", "s">>, <<"/", "s", "t", "a", "t", "i", "c">>,
      <<"/", "f", "a", "v", "i", "c", "o", "n", ".", "i", "c", "o">>, <<"/", "a", "u", "t", "h", "/", "l", "o", "g", "i", "n">>, <<"/", "a", "u", "t", "h", "/", "l", "o", "g", "o", "u", "t">>, <<"/", "a", "u", "t", "h", "/", "l", "o", "g", "i", "n", "/">> }
AuthRequests ==
    {[path |-> p, method |-> m, auth_token |-> c, form |-> f] :
        p \in Paths, m \in {"GET", "POST"},
        c \in {None, AUTHENTICATED, <<"A", "u", "t", "h", "e", "n", "t", "i", "c", "a", "t", "e", "d">>}, f \in Forms}

\* the answers of the middleware: what call_next returns, the login page,
\* and the three answers of _handle_login
Downstream ==
    [call_next |-> TRUE, status_code |-> 0, content |-> "downstream", set_cookie |-> FALSE]
LoginPage ==
    [call_next |-> FALSE, status_code |-> 200, content |-> "login page", set_cookie |-> FALSE]
LoggedIn ==
    [call_next |-> FALSE, status_code |-> 200, content |-> "success", set_cookie |-> TRUE]
WrongPassword ==
    [call_next |-> FALSE, status_code |-> 401, content |-> "wrong password", set_cookie |-> FALSE]
ServerError ==
    [call_next |-> FALSE, status_code |-> 500, content |-> "server error", set_cookie |-> FALSE]

\* AuthMiddleware._handle_login
_handle_login(r, password_file) ==
    IF ~r.form.parses THEN ServerError
    ELSE IF FormGet(r.form) = _load_password(password_file) THEN LoggedIn
    ELSE WrongPassword

\* dispatch that lets any request with an auth_token cookie through
dispatch_any_token(r, password_file) ==
    IF StartsWith(r.path, <<"/", "s", "t", "a", "t", "i", "c", "/">>) \/ r.path = <<"/", "f", "a", "v", "i", "c", "o", "n", ".", "i", "c", "o">> THEN Downstream
    ELSE IF r.path = <<"/", "a", "u", "t", "h", "/", "l", "o", "g", "i", "n">> /\ r.method = "POST"
    THEN _handle_login(r, password_file)
    ELSE IF r.path = <<"/", "a", "u", "t", "h", "/", "l", "o", "g", "o", "u", "t">> THEN Downstream
    ELSE IF r.auth_token # None THEN Downstream
    ELSE LoginPage

\* AuthMiddleware.dispatch
dispatch(r, password_file) ==
    IF StartsWith(r.path, <<"/", "s", "t", "a", "t", "i", "c", "/">>) \/ r.path = <<"/", "f", "a", "v", "i", "c", "o", "n", ".", "i", "c", "o">> THEN Downstream
    ELSE IF r.path = <<"/", "a", "u", "t", "h", "/", "l", "o", "g", "i", "n">> /\ r.method = "POST"
    THEN _handle_login(r, password_file)
    ELSE IF r.path = <<"/", "a", "u", "t", "h", "/", "l", "o", "g", "o", "u", "t">> THEN Downstream
    ELSE IF r.auth_token = AUTHENTICATED THEN Downstream
    ELSE LoginPage

InitAuth ==
    /\ fn = "none"
    /\ arg \in {[request |-> r, password_file |-> f] :
                    r \in AuthRequests, f \in PasswordFiles}
    /\ ret = NotRun
    /\ PipelineIdle
    /\ ServerIdle

Dispatch ==
    /\ fn = "none"
    /\ fn' = "dispatch"
    /\ ret' = dispatch(arg.request, arg.password_file)
    /\ UNCHANGED <<arg, pipeline_vars, server_vars>>

NextAuth == Dispatch

SpecAuth == InitAuth /\ [][NextAuth]_vars

\* the request needs no login: a static file, the icon or the logout
Exempt(r) ==
    \/ StartsWith(r.path, <<"/", "s", "t", "a", "t", "i", "c", "/">>)
    \/ r.path = <<"/", "f", "a", "v", "i", "c", "o", "n", ".", "i", "c", "o">>
    \/ r.path = <<"/", "a", "u", "t", "h", "/", "l", "o", "g", "o", "u", "t">>

IsLogin(r) == r.path = <<"/", "a", "u", "t", "h", "/", "l", "o", "g", "i", "n">> /\ r.method = "POST"

\* the password the request submits matches the configured one
PasswordMatches(a) ==
    /\ a.request.form.parses
    /\ FormGet(a.request.form) = _load_password(a.password_file)

\* a request reaches the downstream handler only if it is exempt or carries
\* the cookie, and any other request but a login gets the login page
GateHolds ==
    LET r == arg.request
    IN  /\ ret.call_next => (Exempt(r) \/ r.auth_token = AUTHENTICATED)
        /\ (~Exempt(r) /\ r.auth_token # AUTHENTICATED /\ ~IsLogin(r)) => ret = LoginPage

\* C24 as stated: the gate holds, and POST /auth/login sets the cookie only
\* when the submitted password equals the configured password, answering 401
\* without a cookie otherwise.
C24_GateAnd401 ==
    fn = "dispatch"
    => /\ GateHolds
       /\ IsLogin(arg.request)
          => IF PasswordMatches(arg) THEN ret.set_cookie
             ELSE ret.status_code = 401 /\ ~ret.set_cookie

\* C24: the gate holds, and POST /auth/login never reaches the downstream
\* handler and sets the cookie exactly when the form parses and its password
\* equals the configured password; otherwise it sets no cookie and answers
\* 401 for a wrong password and 500 when the form cannot be parsed.
C24_GateAndLogin ==
    fn = "dispatch"
    => /\ GateHolds
       /\ IsLogin(arg.request)
          => /\ ~ret.call_next
             /\ ret.set_cookie <=> PasswordMatches(arg)
             /\ ~ret.set_cookie
                => ret.status_code = (IF arg.request.form.parses THEN 401 ELSE 500)

\* a login with a wrong password was refused although the request carried
\* the cookie of a logged-in user
C24_Witness ==
    /\ fn = "dispatch"
    /\ IsLogin(arg.request)
    /\ arg.request.auth_token = AUTHENTICATED
    /\ arg.request.form.parses
    /\ ~PasswordMatches(arg)
    /\ ret = WrongPassword

\* the request received last is one of the three report requests
IsReport(r) == \E kind \in ReportKinds : r.endpoint = ReportEndpoint(kind)

\* C25: while no dataset has been loaded, GET /api/statistics answers 404 and
\* each of the three report requests answers 400 at once, without suspending;
\* none of them writes a report file or changes the current dataset, its
\* description or its upload time.
C25_NoDataNoReport ==
    [][ ~has_data(current_data)
        => /\ IsStatistics(request') => response'.status = 404
           /\ IsReport(request') => /\ response'.status = 400
                                    /\ awaiting' = "none"
           /\ (IsStatistics(request') \/ IsReport(request'))
              => /\ reports_dir' = reports_dir
                 /\ DataManagerFields' = DataManagerFields
                 /\ ~has_data(current_data')
      ]_vars

\* the PDF report was refused for want of a dataset after an upload had been
\* rejected
C25_Witness ==
    /\ ~has_data(current_data)
    /\ request.endpoint = ReportEndpoint("pdf")
    /\ response.status = 400
    /\ history_file.records # <<>>
    /\ reports_dir = {}

\* the statistics were refused for want of a dataset
C25_WitnessStatistics ==
    /\ ~has_data(current_data)
    /\ IsStatistics(request)
    /\ response.status = 404

\* C26: after any sequence of uploads (accepted, rejected or failed) and
\* history clears, every record of the upload history names a file that
\* exists in the uploads directory, so that get_latest_file finds a file
\* whenever the history is not empty.
C26_HistoryNamesStoredFiles ==
    /\ \A r \in RecordsOf(history_file.records) : r.filename \in DOMAIN uploads_dir
    /\ history_file.records # <<>>
       => get_upload_history(history_file)[1].filename \in DOMAIN uploads_dir

\* the request received last is a clear of the history
IsClear(r) == r.endpoint = "DELETE /api/clear-history"

-----------------------------------------------------------------------------
(* Claims about the labels of the narrative and the tallies of the snapshot *)

\* the five sections whose sentences print fixed labels
LabelledSections ==
    {"political_status", "gender", "age_distribution", "education",
     "institution_category"}

\* the narrative has been written
Reported == Aggregated /\ report # NotRun /\ report.exc = "none"

\* C28: in the narrative, the count and the percentage printed next to a
\* fixed category label are those of the entry of the snapshot whose category
\* is that label, for every ordering of the distribution.
C28_LabelsMatchEntries ==
    Reported
    => \A section \in LabelledSections :
       \A k \in DOMAIN report.value[section] :
          LET clause == report.value[section][k]
              entries == stats.value[section]
          IN  \E e \in DOMAIN entries :
                 /\ entries[e].name = clause.label
                 /\ entries[e].count = clause.count
                 /\ entries[e].percentage = clause.percentage

\* C29: for every enriched dataset the "C9联盟" entry of the
\* special-institution tally is not negative: every record whose institution
\* is 清华大学 or 北京大学 has the tier "C9联盟", whatever its raw category tag.
C29_AllianceTallyNotNegative ==
    Aggregated
    => /\ stats.value.special_institutions[C9] >= 0
       /\ \A i \in 1..len(df_enhanced.value) :
             df_enhanced.value.rows[i][COL_INSTITUTION] \in {TSINGHUA, PEKING}
             => df_enhanced.value.rows[i][COL_TIER] = C9

\* the texts of the column 应聘状态: the two agreements, a bilateral agreement
\* turned trilateral, an open case and an empty cell
AgreementTexts ==
    { <<"U5DF2", "U7B7E", "U7EA6", "(", "U4E24", "U65B9", ")">>, <<"U5DF2", "U7B7E", "U7EA6", "(", "U4E09", "U65B9", ")">>, <<"U4E24", "U65B9", "U8F6C", "U4E09", "U65B9">>, <<"U5F85", "U5B9A">>, NaN }  \* "已签约(两方)", "已签约(三方)", "两方转三方", "待定"

\* the datasets of at most MaxRecords records that differ in 应聘状态 only
AgreementDatasets ==
    {[columns |-> REQUIRED_COLUMNS, rows |-> rows] :
        rows \in SeqsUpTo({[RosterRecords[1] EXCEPT ![COL_STATUS] = text] :
                              text \in AgreementTexts}, MaxRecords)}

InitAgreements ==
    /\ df \in AgreementDatasets
    /\ df_enhanced = NotRun
    /\ df_again = NotRun
    /\ stats = NotRun
    /\ report = NotRun
    /\ ClassifierIdle
    /\ ServerIdle

SpecAgreements == InitAgreements /\ [][NextPipeline]_vars

\* C30: for every dataset, generate_statistics returns bilateral_count +
\* trilateral_count <= total_count: no record is counted both as bilateral
\* and as trilateral.
C30_AgreementsWithinTotal ==
    Aggregated
    => stats.value.bilateral_count + stats.value.trilateral_count
          <= stats.value.total_count

====
